---- MODULE Spec2Model ----
(***************************************************************************)
(* kopia-helpers: the sync-destination dispatcher (sync_to_cloud), the     *)
(* KopiaSyncRunner it drives and the status file it records outcomes in.   *)
(*                                                                         *)
(* Python strings are sequences of one-character strings, so that          *)
(* concatenation, stripping and prefix tests are computed as the code      *)
(* computes them.  Python dicts are functions; None is the value None.     *)
(***************************************************************************)
EXTENDS Integers, Sequences, FiniteSets, TLC

VARIABLES
    \* ---- the status file and the clock (all specifications)
    file,               \* content of STATUS_FILE as the sequential code sees it
    now,                \* datetime.now(timezone.utc), in seconds
    \* ---- one invocation of sync_to_cloud (Spec)
    sync_destinations,  \* repo_config['sync-to']
    pc,                 \* "idle" | "loop" | "done" | "raised"
    idx,                \* position of the for loop in sync_destinations
    all_success,        \* the local all_success
    result,             \* value returned by sync_to_cloud (None before it returns)
    scheduled,          \* argument scheduled (quiet mode)
    dry_run,            \* argument dry_run
    password,           \* runner.get_password(repo_config)
    passes,             \* passes of the for loop made so far, over all invocations
    last,               \* what the latest loop iteration did (history)
    considered,         \* destinations the loop has reached in this run (history)
    failedExec,         \* some spawned sync subprocess failed in this run (history)
    \* ---- the status-store API driven directly (SpecStore)
    op,                 \* the latest store operation and the file before it (history)
    \* ---- _save_status_file at system-call level (SpecSave, SpecCrash)
    dir,                \* directory: path -> inode number, 0 when the path does not exist
    inode,              \* inode number -> content (sequence of cells)
    proc,               \* per process: position in update_cloud_sync_status, file offset, ...
                        \* (SpecRace: per invocation of sync, its position and guard answer)
    seen,               \* what readers of STATUS_FILE have read (history)
    renamed             \* processes whose rename succeeded, in order (history)

schedVars == <<sync_destinations, pc, idx, all_success, result, scheduled, dry_run,
               password, passes, last, considered, failedExec>>
fsVars == <<dir, inode, proc, seen, renamed>>
vars == <<file, now, schedVars, op, fsVars>>

None == <<"<None>">>

(***************************************************************************)
(* Bounds of the model.                                                    *)
(***************************************************************************)
MaxDests == 2       \* longest sync-to list
MaxPasses == 2      \* passes of the for loop, over all invocations
MaxTime == 2        \* the clock stops advancing here
MaxOps == 3         \* store operations in SpecStore
NProc == 2          \* concurrent processes in SpecSave and SpecRace
MaxPathLen == 3     \* longest string given to _normalize_remote_path

(***************************************************************************)
(* String literals of the source.                                          *)
(***************************************************************************)
s_rclone == <<"r", "c", "l", "o", "n", "e">>
\* the destination types other than rclone (BACKEND_PARAMS keys, "unknown" of get_destination_id)
Type ==
    [s3 |-> <<"s", "3">>,
     gcs |-> <<"g", "c", "s">>,
     azure |-> <<"a", "z", "u", "r", "e">>,
     b2 |-> <<"b", "2">>,
     gdrive |-> <<"g", "d", "r", "i", "v", "e">>,
     filesystem |-> <<"f", "i", "l", "e", "s", "y", "s", "t", "e", "m">>,
     sftp |-> <<"s", "f", "t", "p">>,
     webdav |-> <<"w", "e", "b", "d", "a", "v">>,
     unknown |-> <<"u", "n", "k", "n", "o", "w", "n">>]
s_60m == <<"6", "0", "m">>
s_kopia == <<"k", "o", "p", "i", "a">>
\* the words and flags of the kopia command line
Flag ==
    [config_file |-> <<"-", "-", "c", "o", "n", "f", "i", "g", "-", "f", "i", "l", "e", "=">>,
     password |-> <<"-", "-", "p", "a", "s", "s", "w", "o", "r", "d", "=">>,
     repository |-> <<"r", "e", "p", "o", "s", "i", "t", "o", "r", "y">>,
     sync_to |-> <<"s", "y", "n", "c", "-", "t", "o">>,
     delete |-> <<"-", "-", "d", "e", "l", "e", "t", "e">>,
     flat |-> <<"-", "-", "f", "l", "a", "t">>,
     rclone_debug |-> <<"-", "-", "r", "c", "l", "o", "n", "e", "-", "d", "e", "b", "u", "g">>,
     dry_run |-> <<"-", "-", "d", "r", "y", "-", "r", "u", "n">>,
     rclone_args |-> <<"-", "-", "r", "c", "l", "o", "n", "e", "-", "a", "r", "g", "s", "=">>]

\* cmd_prefix of BACKEND_PARAMS
Prefix ==
    [remote_path |-> <<"-", "-", "r", "e", "m", "o", "t", "e", "-", "p", "a", "t", "h", "=">>,
     bucket |-> <<"-", "-", "b", "u", "c", "k", "e", "t", "=">>,
     container |-> <<"-", "-", "c", "o", "n", "t", "a", "i", "n", "e", "r", "=">>,
     storage_account |-> <<"-", "-", "s", "t", "o", "r", "a", "g", "e", "-", "a", "c", "c", "o", "u", "n", "t", "=">>,
     folder_id |-> <<"-", "-", "f", "o", "l", "d", "e", "r", "-", "i", "d", "=">>,
     path |-> <<"-", "-", "p", "a", "t", "h", "=">>,
     host |-> <<"-", "-", "h", "o", "s", "t", "=">>,
     username |-> <<"-", "-", "u", "s", "e", "r", "n", "a", "m", "e", "=">>,
     url |-> <<"-", "-", "u", "r", "l", "=">>]
(***************************************************************************)
(* Python string and dict primitives.                                      *)
(***************************************************************************)
Whitespace == {" ", "\t", "\n"}
Quotes == {"\"", "'"}
Digits == {"0", "1", "2", "3", "4", "5", "6", "7", "8", "9"}

DigitVal(c) ==
    CASE c = "0" -> 0 [] c = "1" -> 1 [] c = "2" -> 2 [] c = "3" -> 3 [] c = "4" -> 4
      [] c = "5" -> 5 [] c = "6" -> 6 [] c = "7" -> 7 [] c = "8" -> 8 [] c = "9" -> 9

DigitChar(n) ==
    CASE n = 0 -> "0" [] n = 1 -> "1" [] n = 2 -> "2" [] n = 3 -> "3" [] n = 4 -> "4"
      [] n = 5 -> "5" [] n = 6 -> "6" [] n = 7 -> "7" [] n = 8 -> "8" [] n = 9 -> "9"

\* str(n) for n >= 0
RECURSIVE str(_)
str(n) == IF n < 10 THEN <<DigitChar(n)>> ELSE str(n \div 10) \o <<DigitChar(n % 10)>>

\* s.lstrip(chars), s.rstrip(chars), s.strip(chars)
RECURSIVE lstrip(_, _)
lstrip(s, chars) ==
    IF s # <<>> /\ Head(s) \in chars THEN lstrip(Tail(s), chars) ELSE s

RECURSIVE rstrip(_, _)
rstrip(s, chars) ==
    IF s # <<>> /\ s[Len(s)] \in chars THEN rstrip(SubSeq(s, 1, Len(s) - 1), chars) ELSE s

strip(s, chars) == rstrip(lstrip(s, chars), chars)

LowerChar(c) ==
    CASE c = "H" -> "h" [] c = "M" -> "m" [] c = "S" -> "s" [] c = "D" -> "d"
      [] c = "O" -> "o" [] c = "B" -> "b" [] c = "X" -> "x" [] OTHER -> c

lower(s) == [k \in 1..Len(s) |-> LowerChar(s[k])]

startswith(s, prefix) ==
    Len(s) >= Len(prefix) /\ SubSeq(s, 1, Len(prefix)) = prefix

endswith(s, c) == s # <<>> /\ s[Len(s)] = c

\* s.split(':')[0] if ':' in s else s
RECURSIVE before_colon(_)
before_colon(s) ==
    IF s = <<>> \/ Head(s) = ":" THEN <<>> ELSE <<Head(s)>> \o before_colon(Tail(s))

\* mutant: only the first name is reported
join_first(names) == names[1]

\* ', '.join(names)
RECURSIVE join(_)
join(names) ==
    IF names = <<>> THEN <<>>
    ELSE IF Len(names) = 1 THEN names[1]
    ELSE names[1] \o <<",", " ">> \o join(Tail(names))

\* int(s): [ok |-> FALSE] stands for ValueError
RECURSIVE digits_value(_)
digits_value(s) ==
    IF s = <<>> THEN 0 ELSE 10 * digits_value(SubSeq(s, 1, Len(s) - 1)) + DigitVal(s[Len(s)])

int(s) ==
    LET t == strip(s, Whitespace)
    IN  IF t # <<>> /\ \A k \in 1..Len(t) : t[k] \in Digits
        THEN [ok |-> TRUE, v |-> digits_value(t)]
        ELSE [ok |-> FALSE, v |-> 0]

\* d.get(key, default)
get(d, key, default) == IF key \in DOMAIN d THEN d[key] ELSE default

\* d[key] = value
setitem(d, key, value) == [k \in DOMAIN d \cup {key} |-> IF k = key THEN value ELSE d[k]]

\* del d[key] for every key in keys
delitems(d, keys) == [k \in DOMAIN d \ keys |-> d[k]]

EmptyDict == [k \in {} |-> None]

\* truth value of a Python str-or-None
truthy(s) == s # None /\ s # <<>>

(***************************************************************************)
(* Keys of a destination configuration (dest_config).                      *)
(***************************************************************************)
\* the keys of a destination configuration
Key ==
    [type |-> <<"t", "y", "p", "e">>,
     remote_path |-> <<"r", "e", "m", "o", "t", "e", "-", "p", "a", "t", "h">>,
     bucket |-> <<"b", "u", "c", "k", "e", "t">>,
     container |-> <<"c", "o", "n", "t", "a", "i", "n", "e", "r">>,
     storage_account |-> <<"s", "t", "o", "r", "a", "g", "e", "-", "a", "c", "c", "o", "u", "n", "t">>,
     folder_id |-> <<"f", "o", "l", "d", "e", "r", "-", "i", "d">>,
     path |-> <<"p", "a", "t", "h">>,
     host |-> <<"h", "o", "s", "t">>,
     username |-> <<"u", "s", "e", "r", "n", "a", "m", "e">>,
     url |-> <<"u", "r", "l">>,
     interval |-> <<"i", "n", "t", "e", "r", "v", "a", "l">>,
     sync_args |-> <<"s", "y", "n", "c", "-", "a", "r", "g", "s">>]

\* the error messages and log lines of KopiaSyncRunner
Msg ==
    [exited |-> <<"k", "o", "p", "i", "a", " ", "e", "x", "i", "t", "e", "d", " ", "w", "i", "t", "h", " ", "c", "o", "d", "e", " ">>,
     interrupted |-> <<"S", "y", "n", "c", " ", "i", "n", "t", "e", "r", "r", "u", "p", "t", "e", "d", " ", "b", "y", " ", "u", "s", "e", "r">>,
     notfound |-> <<"k", "o", "p", "i", "a", " ", "n", "o", "t", " ", "f", "o", "u", "n", "d", " ", "i", "n", " ", "P", "A", "T", "H">>,
     skipped |-> <<"S", "k", "i", "p", "p", "e", "d", ":", " ">>,
     letting |-> <<" ", "(", "l", "e", "t", "t", "i", "n", "g", " ", "p", "r", "e", "v", "i", "o", "u", "s", " ", "s", "y", "n", "c", " ", "f", "i", "n", "i", "s", "h", ")">>,
     already |-> <<"r", "c", "l", "o", "n", "e", " ", "a", "l", "r", "e", "a", "d", "y", " ", "s", "y", "n", "c", "i", "n", "g", " ", "t", "o", " ">>,
     remote_pre |-> <<"r", "c", "l", "o", "n", "e", " ", "r", "e", "m", "o", "t", "e", " ", "'">>,
     remote_post |-> <<"'", " ", "n", "o", "t", " ", "c", "o", "n", "f", "i", "g", "u", "r", "e", "d">>,
     missing_type |-> <<"M", "i", "s", "s", "i", "n", "g", " ", "'", "t", "y", "p", "e", "'", " ", "i", "n", " ", "s", "y", "n", "c", "-", "t", "o", " ", "d", "e", "s", "t", "i", "n", "a", "t", "i", "o", "n">>,
     unknown_type |-> <<"U", "n", "k", "n", "o", "w", "n", " ", "s", "y", "n", "c", "-", "t", "o", " ", "t", "y", "p", "e", ":", " ">>,
     missing_req |-> <<"M", "i", "s", "s", "i", "n", "g", " ", "r", "e", "q", "u", "i", "r", "e", "d", " ", "p", "a", "r", "a", "m", "e", "t", "e", "r", "s", " ", "f", "o", "r", " ">>,
     executing |-> <<"E", "x", "e", "c", "u", "t", "i", "n", "g", ":", " ">>,
     would_execute |-> <<"[", "D", "R", "Y", "-", "R", "U", "N", "]", " ", "W", "o", "u", "l", "d", " ", "e", "x", "e", "c", "u", "t", "e", ":", " ">>,
     sync_interrupted |-> <<"S", "y", "n", "c", " ", "i", "n", "t", "e", "r", "r", "u", "p", "t", "e", "d">>,
     unknown_err |-> <<"U", "n", "k", "n", "o", "w", "n", " ", "e", "r", "r", "o", "r", " ", "b", "u", "i", "l", "d", "i", "n", "g", " ", "c", "o", "m", "m", "a", "n", "d">>]

s_serve == <<"s", "e", "r", "v", "e">>

KOPIA_EXE == s_kopia

\* sys.platform of the machine the scripts run on
sys_platform == "linux"

(***************************************************************************)
(* class KopiaSyncRunner                                                   *)
(***************************************************************************)
\* mutant: --flat for every backend that has a path
CLOUD_BACKENDS_and_sftp == {s_rclone, Type.s3, Type.gcs, Type.azure, Type.b2, Type.gdrive, Type.sftp}

CLOUD_BACKENDS == {s_rclone, Type.s3, Type.gcs, Type.azure, Type.b2, Type.gdrive}

BACKEND_PARAMS ==
    [t \in {s_rclone, Type.s3, Type.gcs, Type.azure, Type.b2, Type.gdrive, Type.filesystem, Type.sftp, Type.webdav} |->
        CASE t = s_rclone -> [required |-> <<Key.remote_path>>, cmd_prefix |-> <<Prefix.remote_path>>]
          [] t = Type.s3 -> [required |-> <<Key.bucket>>, cmd_prefix |-> <<Prefix.bucket>>]
          [] t = Type.gcs -> [required |-> <<Key.bucket>>, cmd_prefix |-> <<Prefix.bucket>>]
          [] t = Type.azure -> [required |-> <<Key.container, Key.storage_account>>,
                             cmd_prefix |-> <<Prefix.container, Prefix.storage_account>>]
          [] t = Type.b2 -> [required |-> <<Key.bucket>>, cmd_prefix |-> <<Prefix.bucket>>]
          [] t = Type.gdrive -> [required |-> <<Key.folder_id>>, cmd_prefix |-> <<Prefix.folder_id>>]
          [] t = Type.filesystem -> [required |-> <<Key.path>>, cmd_prefix |-> <<Prefix.path>>]
          [] t = Type.sftp -> [required |-> <<Key.path, Key.host, Key.username>>,
                            cmd_prefix |-> <<Prefix.path, Prefix.host, Prefix.username>>]
          [] t = Type.webdav -> [required |-> <<Key.url>>, cmd_prefix |-> <<Prefix.url>>]]

\* mutant: an sftp destination is named by its host alone
get_destination_id_sftp_host(dest_config) ==
    LET dest_type == get(dest_config, Key.type, Type.unknown)
        param == IF dest_type = s_rclone THEN Key.remote_path
                 ELSE IF dest_type \in {Type.s3, Type.gcs, Type.b2} THEN Key.bucket
                 ELSE IF dest_type = Type.azure THEN Key.container
                 ELSE IF dest_type = Type.gdrive THEN Key.folder_id
                 ELSE IF dest_type = Type.filesystem THEN Key.path
                 ELSE IF dest_type = Type.sftp THEN Key.host
                 ELSE IF dest_type = Type.webdav THEN Key.url
                 ELSE <<>>
    IN  dest_type \o <<":">> \o get(dest_config, param, Type.unknown)

get_destination_id(dest_config) ==
    LET dest_type == get(dest_config, Key.type, Type.unknown)
    IN  IF dest_type = s_rclone
        THEN s_rclone \o <<":">> \o get(dest_config, Key.remote_path, Type.unknown)
        ELSE IF dest_type \in {Type.s3, Type.gcs, Type.b2}
        THEN dest_type \o <<":">> \o get(dest_config, Key.bucket, Type.unknown)
        ELSE IF dest_type = Type.azure
        THEN Type.azure \o <<":">> \o get(dest_config, Key.container, Type.unknown)
        ELSE IF dest_type = Type.gdrive
        THEN Type.gdrive \o <<":">> \o get(dest_config, Key.folder_id, Type.unknown)
        ELSE IF dest_type = Type.filesystem
        THEN Type.filesystem \o <<":">> \o get(dest_config, Key.path, Type.unknown)
        ELSE IF dest_type = Type.sftp
        THEN Type.sftp \o <<":">> \o get(dest_config, Key.host, Type.unknown) \o <<":">>
                 \o get(dest_config, Key.path, <<>>)
        ELSE IF dest_type = Type.webdav
        THEN Type.webdav \o <<":">> \o get(dest_config, Key.url, Type.unknown)
        ELSE dest_type \o <<":">> \o Type.unknown

\* listremotes: the outcome of running `rclone listremotes`:
\* [kind |-> "exit", returncode, lines] or [kind |-> "FileNotFoundError" | "Exception"]
check_rclone_remote_configured(remote_name, listremotes) ==
    IF listremotes.kind # "exit" THEN FALSE
    ELSE IF listremotes.returncode # 0 THEN FALSE
    ELSE \E k \in 1..Len(listremotes.lines) :
            /\ listremotes.lines[k] # <<>>
            /\ rstrip(listremotes.lines[k], {":"}) = remote_name

_normalize_remote_path(path) ==
    LET unquoted == strip(path, Quotes)
        noslash == rstrip(unquoted, {"/"})
    IN  IF sys_platform = "win32" THEN lower(noslash) ELSE noslash

\* the end of the pattern, (?:\s|$), at position e of cmdline
terminated(cmdline, e) ==
    \/ e = Len(cmdline) + 1
    \/ e <= Len(cmdline) /\ cmdline[e] \in Whitespace

\* the regular expression  serve\s+webdav\s+["']?(path)["']?(?:\s|$)  matched at position k
matches_at(cmdline, k, remote_path) ==
    LET n == Len(cmdline)
        lit(at, w) == at + Len(w) - 1 <= n /\ SubSeq(cmdline, at, at + Len(w) - 1) = w
        spaces(from, to) == \A j \in from..to : cmdline[j] \in Whitespace
        quote == IF sys_platform = "win32" THEN {"\""} ELSE Quotes
        ch(at, w) == IF sys_platform = "win32"
                     THEN at + Len(w) - 1 <= n /\ lower(SubSeq(cmdline, at, at + Len(w) - 1)) = lower(w)
                     ELSE lit(at, w)
    IN  /\ ch(k, s_serve)
        /\ \E a \in (k + 5)..n :                \* last blank after "serve"
              /\ spaces(k + 5, a)
              /\ ch(a + 1, Type.webdav)
              /\ \E b \in (a + 7)..n :          \* last blank after "webdav"
                    /\ spaces(a + 7, b)
                    /\ \E q1 \in {0, 1}, q2 \in {0, 1} :
                          LET p == b + 1 + q1
                              e == p + Len(remote_path) + q2
                          IN  /\ q1 = 1 => (b + 1 <= n /\ cmdline[b + 1] \in quote)
                              /\ ch(p, remote_path)
                              /\ q2 = 1 => (e - 1 <= n /\ cmdline[e - 1] \in quote)
                              /\ terminated(cmdline, e)

_path_in_cmdline(cmdline, remote_path) ==
    \E k \in 1..Len(cmdline) : matches_at(cmdline, k, remote_path)

\* sub in s
contains(s, sub) ==
    \E k \in 1..(Len(s) - Len(sub) + 1) : SubSeq(s, k, k + Len(sub) - 1) = sub

\* mutant: the process list is read for a destination of any type
is_sync_already_running_any_type(dest_config, ps) ==
    LET remote_path == get(dest_config, Key.remote_path, <<>>)
        normalized_path == _normalize_remote_path(remote_path)
    IN  IF remote_path = <<>> THEN <<FALSE, <<>>, FALSE>>
        ELSE IF ps.kind # "exit" THEN <<FALSE, <<>>, TRUE>>
        ELSE IF /\ ps.returncode = 0
                /\ \E k \in 1..Len(ps.lines) :
                      _path_in_cmdline(ps.lines[k], normalized_path)
        THEN <<TRUE, Msg.already \o remote_path, TRUE>>
        ELSE <<FALSE, <<>>, TRUE>>

\* mutant: the listing is searched when it exited non-zero, not when it exited 0
is_sync_already_running_failed_listing(dest_config, ps) ==
    LET dest_type == get(dest_config, Key.type, <<>>)
        remote_path == get(dest_config, Key.remote_path, <<>>)
        normalized_path == _normalize_remote_path(remote_path)
    IN  IF dest_type # s_rclone THEN <<FALSE, <<>>, FALSE>>
        ELSE IF remote_path = <<>> THEN <<FALSE, <<>>, FALSE>>
        ELSE IF ps.kind # "exit" THEN <<FALSE, <<>>, TRUE>>
        ELSE IF /\ ps.returncode # 0
                /\ \E k \in 1..Len(ps.lines) :
                      /\ contains(ps.lines[k], s_rclone)
                      /\ contains(lower(ps.lines[k]), s_serve)
                      /\ _path_in_cmdline(ps.lines[k], normalized_path)
        THEN <<TRUE, Msg.already \o remote_path, TRUE>>
        ELSE <<FALSE, <<>>, TRUE>>

\* mutant: the lines of a process listing that exited non-zero are searched too
is_sync_already_running_any_exit(dest_config, ps) ==
    LET dest_type == get(dest_config, Key.type, <<>>)
        remote_path == get(dest_config, Key.remote_path, <<>>)
        normalized_path == _normalize_remote_path(remote_path)
    IN  IF dest_type # s_rclone THEN <<FALSE, <<>>, FALSE>>
        ELSE IF remote_path = <<>> THEN <<FALSE, <<>>, FALSE>>
        ELSE IF ps.kind # "exit" THEN <<FALSE, <<>>, TRUE>>
        ELSE IF \E k \in 1..Len(ps.lines) :
                   /\ contains(ps.lines[k], s_rclone)
                   /\ contains(lower(ps.lines[k]), s_serve)
                   /\ _path_in_cmdline(ps.lines[k], normalized_path)
        THEN <<TRUE, Msg.already \o remote_path, TRUE>>
        ELSE <<FALSE, <<>>, TRUE>>

\* ps: the outcome of the process listing:
\* [kind |-> "exit", returncode, lines] or [kind |-> "Exception"]
\* The result is <<is_running, description>> and, as history, whether the
\* process listing was run.
is_sync_already_running(dest_config, ps) ==
    LET dest_type == get(dest_config, Key.type, <<>>)
        remote_path == get(dest_config, Key.remote_path, <<>>)
        normalized_path == _normalize_remote_path(remote_path)
        candidate(line) ==
            IF sys_platform = "win32"
            THEN strip(line, Whitespace) # <<>> /\ contains(lower(line), s_serve)
            ELSE contains(line, s_rclone) /\ contains(lower(line), s_serve)
    IN  IF dest_type # s_rclone THEN <<FALSE, <<>>, FALSE>>
        ELSE IF remote_path = <<>> THEN <<FALSE, <<>>, FALSE>>
        ELSE IF ps.kind # "exit" THEN <<FALSE, <<>>, TRUE>>
        ELSE IF /\ ps.returncode = 0
                /\ \E k \in 1..Len(ps.lines) :
                      candidate(ps.lines[k]) /\ _path_in_cmdline(ps.lines[k], normalized_path)
        THEN <<TRUE, Msg.already \o remote_path, TRUE>>
        ELSE <<FALSE, <<>>, TRUE>>

\* mutant: --rclone-debug whatever the backend
default_flags_debug_always(dest_type, dryRun) ==
    <<Flag.delete>>
    \o (IF dest_type \in CLOUD_BACKENDS THEN <<Flag.flat>> ELSE <<>>)
    \o <<Flag.rclone_debug>>
    \o (IF dryRun THEN <<Flag.dry_run>> ELSE <<>>)

\* mutant: --dry-run ahead of the other flags
default_flags_dry_run_first(dest_type, dryRun) ==
    (IF dryRun THEN <<Flag.dry_run>> ELSE <<>>)
    \o <<Flag.delete>>
    \o (IF dest_type \in CLOUD_BACKENDS THEN <<Flag.flat>> ELSE <<>>)
    \o (IF dest_type = s_rclone THEN <<Flag.rclone_debug>> ELSE <<>>)

\* build_sync_command, lines 979-995: --delete, --flat, --rclone-debug, --dry-run
default_flags(dest_type, dryRun) ==
    <<Flag.delete>>
    \o (IF dest_type \in CLOUD_BACKENDS THEN <<Flag.flat>> ELSE <<>>)
    \o (IF dest_type = s_rclone THEN <<Flag.rclone_debug>> ELSE <<>>)
    \o (IF dryRun THEN <<Flag.dry_run>> ELSE <<>>)

\* mutant: the sync args are appended verbatim for every backend
extra_args_verbatim(dest_type, sync_args) == sync_args

\* build_sync_command, lines 1000-1006: the sync-args as they are appended
extra_args(dest_type, sync_args) ==
    IF dest_type = s_rclone
    THEN [k \in 1..Len(sync_args) |-> Flag.rclone_args \o sync_args[k]]
    ELSE sync_args

\* The result is [cmd, error]; cmd is None when there is an error.
build_sync_command(dest_config, cfg, pw, dryRun) ==
    LET dest_type == get(dest_config, Key.type, None)
    IN  IF ~truthy(dest_type) THEN [cmd |-> None, error |-> Msg.missing_type]
        ELSE IF dest_type \notin DOMAIN BACKEND_PARAMS
        THEN [cmd |-> None, error |-> Msg.unknown_type \o dest_type]
        ELSE
        LET backend_info == BACKEND_PARAMS[dest_type]
            required == backend_info.required
            missing == SelectSeq(required, LAMBDA p : p \notin DOMAIN dest_config)
            params == [k \in 1..Len(required) |->
                          backend_info.cmd_prefix[k] \o get(dest_config, required[k], <<>>)]
            sync_args == get(dest_config, Key.sync_args, <<>>)
        IN  IF missing # <<>>
            THEN [cmd |-> None,
                  error |-> Msg.missing_req \o dest_type \o <<":", " ">> \o join(missing)]
            ELSE [cmd |-> <<KOPIA_EXE, Flag.config_file \o cfg, Flag.password \o pw,
                            Flag.repository, Flag.sync_to, dest_type>>
                          \o params
                          \o default_flags(dest_type, dryRun)
                          \o extra_args(dest_type, sync_args),
                  error |-> None]

\* mutant: an interrupt is taken for the end of the sync
run_result_interrupt_swallowed(run, quiet) ==
    IF run.kind = "KeyboardInterrupt" THEN [success |-> TRUE, error |-> <<>>]
    ELSE IF run.kind = "FileNotFoundError" THEN [success |-> FALSE, error |-> Msg.notfound]
    ELSE IF run.kind = "Exception" THEN [success |-> FALSE, error |-> run.msg]
    ELSE IF run.returncode = 0 THEN [success |-> TRUE, error |-> <<>>]
    ELSE [success |-> FALSE, error |-> Msg.exited \o str(run.returncode)]

\* mutant: quiet mode reports stderr alone
run_result_stderr_only(run, quiet) ==
    IF run.kind = "KeyboardInterrupt" THEN [success |-> FALSE, error |-> Msg.interrupted]
    ELSE IF run.kind = "FileNotFoundError" THEN [success |-> FALSE, error |-> Msg.notfound]
    ELSE IF run.kind = "Exception" THEN [success |-> FALSE, error |-> run.msg]
    ELSE IF run.returncode = 0 THEN [success |-> TRUE, error |-> <<>>]
    ELSE IF quiet
    THEN [success |-> FALSE, error |-> strip(run.stderr, Whitespace)]
    ELSE [success |-> FALSE, error |-> Msg.exited \o str(run.returncode)]

\* the outcome of subprocess.run(cmd) as sync reports it:
\* run is [kind |-> "exit", returncode, stderr, stdout] or
\*        [kind |-> "KeyboardInterrupt" | "FileNotFoundError"] or [kind |-> "Exception", msg]
run_result(run, quiet) ==
    IF run.kind = "KeyboardInterrupt" THEN [success |-> FALSE, error |-> Msg.interrupted]
    ELSE IF run.kind = "FileNotFoundError" THEN [success |-> FALSE, error |-> Msg.notfound]
    ELSE IF run.kind = "Exception" THEN [success |-> FALSE, error |-> run.msg]
    ELSE IF run.returncode = 0 THEN [success |-> TRUE, error |-> <<>>]
    ELSE IF quiet
    THEN LET err == strip(run.stderr, Whitespace)
             out == strip(run.stdout, Whitespace)
         IN  [success |-> FALSE,
              error |-> IF err # <<>> THEN err
                        ELSE IF out # <<>> THEN out
                        ELSE Msg.exited \o str(run.returncode)]
    ELSE [success |-> FALSE, error |-> Msg.exited \o str(run.returncode)]

\* subprocess.list2cmdline of the standard library: the arguments joined by blanks;
\* an argument that is empty or holds a blank or a tab goes in double quotes, a
\* double quote is escaped and the backslashes before a quote are doubled
RECURSIVE list2cmdline(_)
list2cmdline(seq) ==
    LET RECURSIVE escape(_, _, _, _)
        bs(n) == [i \in 1..n |-> "\\"]
        escape(arg, k, nbs, needquote) ==
            IF k > Len(arg)
            THEN bs(nbs) \o (IF needquote THEN bs(nbs) \o <<"\"">> ELSE <<>>)
            ELSE IF arg[k] = "\\" THEN escape(arg, k + 1, nbs + 1, needquote)
            ELSE IF arg[k] = "\""
            THEN bs(2 * nbs) \o <<"\\", "\"">> \o escape(arg, k + 1, 0, needquote)
            ELSE bs(nbs) \o <<arg[k]>> \o escape(arg, k + 1, 0, needquote)
        one(arg) ==
            LET needquote == arg = <<>> \/ \E k \in 1..Len(arg) : arg[k] \in {" ", "\t"}
            IN  (IF needquote THEN <<"\"">> ELSE <<>>) \o escape(arg, 1, 0, needquote)
    IN  IF seq = <<>> THEN <<>>
        ELSE IF Len(seq) = 1 THEN one(seq[1])
        ELSE one(seq[1]) \o <<" ">> \o list2cmdline(Tail(seq))

\* mutant: the command is shown as it is run
cmd_display_unmasked(cmd) == cmd

\* line 1050
cmd_display(cmd) ==
    [k \in 1..Len(cmd) |->
        IF startswith(cmd[k], Flag.password) THEN Flag.password \o <<"*", "*", "*">>
        ELSE cmd[k]]

\* env is what the operating system answers during this call:
\* [ps, listremotes, run].  The result is [success, error] and, as history, how far
\* the call got: "guard" | "remote" | "build" | "spawned", the lines sync itself
\* logged or printed, in order, and the programs it ran: "ps", "listremotes", "kopia".
sync(dest_config, cfg, pw, quiet, dryRun, env) ==
    LET dest_type == get(dest_config, Key.type, Type.unknown)
        running == is_sync_already_running(dest_config, env.ps)
        remote_path == get(dest_config, Key.remote_path, <<>>)
        remote_name == before_colon(remote_path)
        built == build_sync_command(dest_config, cfg, pw, dryRun)
        ran == run_result(env.run, quiet)
        shown == list2cmdline(cmd_display(built.cmd))
        listed == IF running[3] THEN {"ps"} ELSE {}
    IN  IF running[1]
        THEN [success |-> FALSE, error |-> Msg.skipped \o running[2] \o Msg.letting,
              stage |-> "guard", log |-> <<>>, spawned |-> listed]
        ELSE IF dest_type = s_rclone
                /\ ~check_rclone_remote_configured(remote_name, env.listremotes)
        THEN [success |-> FALSE, error |-> Msg.remote_pre \o remote_name \o Msg.remote_post,
              stage |-> "remote", log |-> <<>>, spawned |-> listed \cup {"listremotes"}]
        ELSE
        LET checked == listed \cup (IF dest_type = s_rclone THEN {"listremotes"} ELSE {})
        IN  IF built.cmd = None \/ truthy(built.error)
            THEN [success |-> FALSE,
                  error |-> IF truthy(built.error) THEN built.error ELSE Msg.unknown_err,
                  stage |-> "build", log |-> <<>>, spawned |-> checked]
            ELSE [success |-> ran.success, error |-> ran.error, stage |-> "spawned",
                  log |-> <<Msg.executing \o shown>>
                          \o (IF dryRun /\ ~quiet THEN <<Msg.would_execute \o shown>>
                              ELSE <<>>)
                          \o (IF env.run.kind = "KeyboardInterrupt"
                              THEN <<Msg.sync_interrupted>> ELSE <<>>),
                  spawned |-> checked \cup {"kopia"}]
(***************************************************************************)
(* kopia-start-backups.py: parse_interval                                  *)
(* [ok |-> FALSE] stands for the ValueError int() raises.                  *)
(***************************************************************************)
parse_interval(interval_str) ==
    IF interval_str = <<>> THEN [ok |-> TRUE, v |-> 3600]
    ELSE
    LET s == lower(strip(interval_str, Whitespace))
        prefix == int(SubSeq(s, 1, Len(s) - 1))
    IN  IF endswith(s, "h") THEN [ok |-> prefix.ok, v |-> prefix.v * 3600]
        ELSE IF endswith(s, "m") THEN [ok |-> prefix.ok, v |-> prefix.v * 60]
        ELSE IF endswith(s, "s") THEN prefix
        ELSE int(s)

(***************************************************************************)
(* The status file.  Its content is Absent (no such file), the text        *)
(* json.dump wrote for a dict, or text json.load cannot parse.             *)
(* A timestamp text is <<form, t>>: form "T+00:00" is what isoformat()     *)
(* writes for an aware UTC datetime, "TZ" the same instant written with a  *)
(* Z suffix, "Tnaive" a timestamp without offset.                          *)
(***************************************************************************)
Absent == <<"<absent>">>
Garbage == <<"<not json>">>
\* a file that exists and cannot be opened for reading
Unreadable == <<"<EACCES>">>
\* bytes that are not UTF-8
Undecodable == <<"<not utf-8>">>
\* the text  []
JsonList == <<"<[]>">>
\* the text  {"cloud_sync": []}
JsonSectionList == <<"<{cloud_sync: []}>">>

json_dump(status) == <<"json", status>>

\* with open(STATUS_FILE) as f: json.load(f).  exc is the exception raised, if any.
\* An empty list and an empty dict are both the empty function here; the operators
\* that treat them differently look at the text they came from.
json_load(text) ==
    IF Len(text) = 2 /\ text[1] = "json"
    THEN [ok |-> TRUE, v |-> text[2], exc |-> "none"]
    ELSE IF text = JsonList
    THEN [ok |-> TRUE, v |-> <<>>, exc |-> "none"]
    ELSE IF text = JsonSectionList
    THEN [ok |-> TRUE, v |-> ("cloud_sync" :> <<>>), exc |-> "none"]
    ELSE IF text = Unreadable
    THEN [ok |-> FALSE, v |-> EmptyDict, exc |-> "IOError"]
    ELSE IF text = Undecodable
    THEN [ok |-> FALSE, v |-> EmptyDict, exc |-> "UnicodeDecodeError"]
    ELSE [ok |-> FALSE, v |-> EmptyDict, exc |-> "JSONDecodeError"]

isoformat(t) == <<"T+00:00", t>>

\* datetime.fromisoformat(s.replace('Z', '+00:00')):
\* [ok |-> FALSE] stands for ValueError; aware tells whether the result has a tzinfo
fromisoformat_utc(s) ==
    LET replaced == IF Len(s) = 2 /\ s[1] = "TZ" THEN <<"T+00:00", s[2]>> ELSE s
    IN  IF Len(replaced) = 2 /\ replaced[1] = "T+00:00"
        THEN [ok |-> TRUE, aware |-> TRUE, t |-> replaced[2]]
        ELSE IF Len(replaced) = 2 /\ replaced[1] = "Tnaive"
        THEN [ok |-> TRUE, aware |-> FALSE, t |-> replaced[2]]
        ELSE [ok |-> FALSE, aware |-> FALSE, t |-> 0]

_load_status_file(f) ==
    IF f = Absent THEN EmptyDict
    ELSE IF json_load(f).ok THEN json_load(f).v
    ELSE EmptyDict

\* the exception that leaves _load_status_file ("none": it returns):
\* the except clause names json.JSONDecodeError and IOError
_load_status_file_exc(f) ==
    IF f = Absent THEN "none"
    ELSE IF json_load(f).exc \in {"none", "JSONDecodeError", "IOError"} THEN "none"
    ELSE json_load(f).exc

_save_status_file(f, status) == json_dump(status)

load_cloud_sync_status(f) == get(_load_status_file(f), "cloud_sync", EmptyDict)

composite_key(repo_name, dest_id) == repo_name \o <<":">> \o dest_id

\* mutant: the saved document is rebuilt from the cloud_sync section alone
update_cloud_sync_status_section_only(f, t, repo_name, dest_id, success, error) ==
    LET key == composite_key(repo_name, dest_id)
        record == [last_sync |-> isoformat(t), success |-> success,
                   dest_id |-> dest_id, error |-> error]
    IN  _save_status_file(f, setitem(EmptyDict, "cloud_sync",
                                     setitem(load_cloud_sync_status(f), key, record)))

update_cloud_sync_status(f, t, repo_name, dest_id, success, error) ==
    LET loaded == _load_status_file(f)
        status == IF "cloud_sync" \notin DOMAIN loaded
                  THEN setitem(loaded, "cloud_sync", EmptyDict)
                  ELSE loaded
        key == composite_key(repo_name, dest_id)
        record == [last_sync |-> isoformat(t), success |-> success,
                   dest_id |-> dest_id, error |-> error]
    IN  _save_status_file(f, setitem(status, "cloud_sync",
                                     setitem(status["cloud_sync"], key, record)))

\* Optional[dict]: <<>> for None, <<record>> otherwise
get_sync_status_for_destination(f, repo_name, dest_id) ==
    LET cloud_status == load_cloud_sync_status(f)
        key == composite_key(repo_name, dest_id)
    IN  IF key \in DOMAIN cloud_status THEN <<cloud_status[key]>> ELSE <<>>

\* the exception that leaves get_sync_status_for_destination: a list has no .get
\* (status.get in load_cloud_sync_status, cloud_status.get after it)
get_sync_status_for_destination_exc(f) ==
    IF _load_status_file_exc(f) # "none" THEN _load_status_file_exc(f)
    ELSE IF f = JsonList \/ f = JsonSectionList THEN "AttributeError"
    ELSE "none"

\* the exception that leaves update_cloud_sync_status: a list takes no str index
\* (status["cloud_sync"] = {}, status["cloud_sync"][key] = {...})
update_cloud_sync_status_exc(f) ==
    IF _load_status_file_exc(f) # "none" THEN _load_status_file_exc(f)
    ELSE IF f = JsonList \/ f = JsonSectionList THEN "TypeError"
    ELSE "none"

\* the exception that leaves cleanup_status_file: "cloud_sync" in status and the
\* iteration over status["cloud_sync"] work on an empty list as on a dict
cleanup_status_file_exc(f) == _load_status_file_exc(f)

\* mutant: a key is kept when it merely starts with a valid name
is_valid_key_prefix(key, valid_repo_names) ==
    \E k \in 1..Len(valid_repo_names) : startswith(key, valid_repo_names[k])

is_valid_key(key, valid_repo_names) ==
    \E k \in 1..Len(valid_repo_names) :
        key = valid_repo_names[k] \/ startswith(key, valid_repo_names[k] \o <<":">>)

stale_keys(f, valid_repo_names) ==
    LET status == _load_status_file(f)
    IN  IF "cloud_sync" \in DOMAIN status
        THEN {key \in DOMAIN status["cloud_sync"] : ~is_valid_key(key, valid_repo_names)}
        ELSE {}

\* mutant: cleanup saves whenever the document has a cloud_sync section
changed_if_section(f, valid_repo_names) == "cloud_sync" \in DOMAIN _load_status_file(f)

\* the flag that decides whether cleanup_status_file saves
changed(f, valid_repo_names) == stale_keys(f, valid_repo_names) # {}

cleanup_status_file(f, valid_repo_names) ==
    LET status == _load_status_file(f)
    IN  IF changed(f, valid_repo_names)
        THEN _save_status_file(f, setitem(status, "cloud_sync",
                                          delitems(status["cloud_sync"],
                                                   stale_keys(f, valid_repo_names))))
        ELSE f

(***************************************************************************)
(* kopia-start-backups.py: sync_to_cloud, one pass of its for loop.        *)
(***************************************************************************)
\* mutant: the interval check with <= for <
throttled_le(dest_status, t, interval_seconds) ==
    /\ dest_status # <<>>
    /\ dest_status[1].success
    /\ truthy(dest_status[1].last_sync)
    /\ LET last_sync == fromisoformat_utc(dest_status[1].last_sync)
       IN  /\ last_sync.ok
           /\ last_sync.aware
           /\ t - last_sync.t <= interval_seconds

\* lines 353-365: the interval check says "skip this destination"
throttled(dest_status, t, interval_seconds) ==
    /\ dest_status # <<>>
    /\ dest_status[1].success
    /\ truthy(dest_status[1].last_sync)
    /\ LET last_sync == fromisoformat_utc(dest_status[1].last_sync)
       IN  /\ last_sync.ok
           /\ last_sync.aware            \* aware - naive raises TypeError: proceed
           /\ t - last_sync.t < interval_seconds

\* whether the remote of an rclone destination is configured at the time of the
\* pass (env.listremotes is what rclone would answer)
configured(dest_config, env) ==
    get(dest_config, Key.type, <<>>) = s_rclone =>
        check_rclone_remote_configured(
            before_colon(get(dest_config, Key.remote_path, <<>>)), env.listremotes)

\* mutant: the error of sync is stored whatever the outcome
attempt_error_always(repo_name, dest_config, dest_id, f, t, all, quiet, dryRun, cfg, pw, env) ==
    LET r == sync(dest_config, cfg, pw, quiet, dryRun, env)
        error == r.error
        t_update == IF r.stage = "spawned" THEN t + env.took ELSE t
    IN  [file |-> update_cloud_sync_status(f, t_update, repo_name, dest_id, r.success, error),
         all_success |-> IF r.success THEN all ELSE FALSE,
         outcome |-> r.stage,
         success |-> r.success,
         updates |-> <<[key |-> composite_key(repo_name, dest_id),
                        success |-> r.success, error |-> error]>>,
         t_update |-> t_update,
         interval |-> 0, status_before |-> <<>>,
         spawned |-> r.spawned,
         run_kind |-> IF r.stage = "spawned" THEN env.run.kind ELSE "none",
         configured |-> configured(dest_config, env)]

\* lines 367-386: sync, then update_cloud_sync_status, then all_success.
\* env.took is the time the call to sync takes.
attempt(repo_name, dest_config, dest_id, f, t, all, quiet, dryRun, cfg, pw, env) ==
    LET r == sync(dest_config, cfg, pw, quiet, dryRun, env)
        error == IF ~r.success THEN r.error ELSE None
        t_update == IF r.stage = "spawned" THEN t + env.took ELSE t
    IN  [file |-> update_cloud_sync_status(f, t_update, repo_name, dest_id, r.success, error),
         all_success |-> IF r.success THEN all ELSE FALSE,
         outcome |-> r.stage,
         success |-> r.success,
         updates |-> <<[key |-> composite_key(repo_name, dest_id),
                        success |-> r.success, error |-> error]>>,
         t_update |-> t_update,
         interval |-> 0, status_before |-> <<>>,
         spawned |-> r.spawned,
         run_kind |-> IF r.stage = "spawned" THEN env.run.kind ELSE "none",
         configured |-> configured(dest_config, env)]

\* mutant: the skip branch without its continue
loop_body_no_continue(repo_name, dest_config, f, t, all, quiet, dryRun, cfg, pw, env) ==
    LET dest_id == get_destination_id(dest_config)
        interval_seconds == parse_interval(get(dest_config, Key.interval, s_60m))
        dest_status == get_sync_status_for_destination(f, repo_name, dest_id)
        skipped == interval_seconds.ok /\ throttled(dest_status, t, interval_seconds.v)
    IN  IF ~interval_seconds.ok
        THEN [file |-> f, all_success |-> all, outcome |-> "raised", success |-> FALSE,
              updates |-> <<>>, t_update |-> t,
              interval |-> 0, status_before |-> dest_status,
              spawned |-> {}, run_kind |-> "none",
              configured |-> configured(dest_config, env)]
        ELSE [attempt(repo_name, dest_config, dest_id, f, t, all, quiet, dryRun,
                      cfg, pw, env)
                EXCEPT !.interval = interval_seconds.v, !.status_before = dest_status,
                       !.outcome = IF skipped THEN "throttled" ELSE @]

\* lines 347-386
loop_body(repo_name, dest_config, f, t, all, quiet, dryRun, cfg, pw, env) ==
    LET dest_id == get_destination_id(dest_config)
        interval_seconds == parse_interval(get(dest_config, Key.interval, s_60m))
        dest_status == get_sync_status_for_destination(f, repo_name, dest_id)
    IN  IF ~interval_seconds.ok
        THEN [file |-> f, all_success |-> all, outcome |-> "raised", success |-> FALSE,
              updates |-> <<>>, t_update |-> t,
              interval |-> 0, status_before |-> dest_status,
              spawned |-> {}, run_kind |-> "none",
              configured |-> configured(dest_config, env)]
        ELSE IF throttled(dest_status, t, interval_seconds.v)
        THEN [file |-> f, all_success |-> all, outcome |-> "throttled", success |-> FALSE,
              updates |-> <<>>, t_update |-> t,
              interval |-> interval_seconds.v, status_before |-> dest_status,
              spawned |-> {}, run_kind |-> "none",
              configured |-> configured(dest_config, env)]
        ELSE [attempt(repo_name, dest_config, dest_id, f, t, all, quiet, dryRun,
                      cfg, pw, env)
                EXCEPT !.interval = interval_seconds.v, !.status_before = dest_status]

(***************************************************************************)
(* Inputs: configurations, initial status files, answers of the            *)
(* operating system.                                                       *)
(***************************************************************************)
line_serving == <<"r", "c", "l", "o", "n", "e", " ", "s", "e", "r", "v", "e", " ", "w", "e", "b", "d", "a", "v", " ", "o", "d", ":", "b", " ", "-", "-", "a", "d", "d", "r">>
\* the strings the inputs are made of
Val ==
    [od_b |-> <<"o", "d", ":", "b">>,
     od_line |-> <<"o", "d", ":">>,
     bk |-> <<"b", "k">>,
     c |-> <<"c">>,
     i2s |-> <<"2", "s">>,
     i1d |-> <<"1", "d">>,
     e |-> <<" ", "e", " ">>,
     boom |-> <<"b", "o", "o", "m">>,
     pw |-> <<"p", "w">>,
     cfg |-> <<"r", ".", "c", "o", "n", "f", "i", "g">>,
     R |-> <<"R">>,
     Q |-> <<"Q">>,
     R_Q |-> <<"R", ":", "Q">>,
     Q_s3_x |-> <<"Q", ":", "s", "3", ":", "x">>,
     RQ_x |-> <<"R", "Q", ":", "x">>,
     ftp |-> <<"f", "t", "p">>,
     od_b_c |-> <<"o", "d", ":", "b", "/", "c">>,
     subdir |-> <<"/", "s", "u", "b", "d", "i", "r">>,
     other |-> <<"-", "o", "t", "h", "e", "r">>,
     rclone_v |-> <<"r", "c", "l", "o", "n", "e", " ", "-", "v", " ">>,
     addr |-> <<" ", "-", "-", "a", "d", "d", "r">>,
     tps |-> <<"-", "-", "t", "p", "s", "l", "i", "m", "i", "t">>,
     ten |-> <<"1", "0">>,
     s3_x |-> <<"s", "3", ":", "x">>,
     R_rclone |-> <<"R", ":", "r", "c", "l", "o", "n", "e", ":", "o", "d", ":", "b">>,
     rclone_od_b |-> <<"r", "c", "l", "o", "n", "e", ":", "o", "d", ":", "b">>,
     old |-> <<"o", "l", "d">>,
     one |-> <<"1">>,
     R_s3_bk |-> <<"R", ":", "s", "3", ":", "b", "k">>,
     s3_bk |-> <<"s", "3", ":", "b", "k">>,
     R_azure_c |-> <<"R", ":", "a", "z", "u", "r", "e", ":", "c">>,
     azure_c |-> <<"a", "z", "u", "r", "e", ":", "c">>]

repo_name == Val.R
config_file == Val.cfg

DestRclone == (Key.type :> s_rclone) @@ (Key.remote_path :> Val.od_b) @@ (Key.interval :> Val.i2s)
DestS3 == (Key.type :> Type.s3) @@ (Key.bucket :> Val.bk)
DestAzureNoAccount == (Key.type :> Type.azure) @@ (Key.container :> Val.c) @@ (Key.interval :> Val.i2s)
DestS3BadInterval == (Key.type :> Type.s3) @@ (Key.bucket :> Val.c) @@ (Key.interval :> Val.i1d)

Catalog == {DestRclone, DestS3, DestAzureNoAccount, DestS3BadInterval}

\* destinations that cannot be built: rclone without its remote-path, an unknown type
DestRcloneNoPath == (Key.type :> s_rclone) @@ (Key.interval :> Val.i2s)
DestUnknownType == (Key.type :> Val.ftp)

\* sync-to: lists over the catalog, and each destination that cannot be built alone
DestLists ==
    UNION {[1..n -> Catalog] : n \in 0..MaxDests}
    \cup {<<DestRcloneNoPath>>, <<DestUnknownType>>}

RecordOfQ == [last_sync |-> isoformat(0), success |-> FALSE, dest_id |-> Val.s3_x,
              error |-> Val.old]

\* records another version of the scripts wrote for R's destinations
ForeignRecord(last_sync, dest_id) ==
    [last_sync |-> last_sync, success |-> TRUE, dest_id |-> dest_id, error |-> None]

Doc0 ==
    ("schema" :> Val.one) @@
    ("cloud_sync" :>
        ((Val.Q_s3_x :> RecordOfQ) @@
         (Val.R :> RecordOfQ) @@
         (Val.RQ_x :> RecordOfQ) @@
         (Val.R_rclone :> ForeignRecord(<<"TZ", 0>>, Val.rclone_od_b)) @@
         (Val.R_s3_bk :> ForeignRecord(<<"Tnaive", 0>>, Val.s3_bk)) @@
         (Val.R_azure_c :> ForeignRecord(<<"yesterday">>, Val.azure_c))))

InitFiles == {Absent, json_dump(Doc0)}

PsOutcomes ==
    {[kind |-> "exit", returncode |-> 0, lines |-> <<>>],
     [kind |-> "exit", returncode |-> 0, lines |-> <<line_serving>>],
     [kind |-> "exit", returncode |-> 1, lines |-> <<line_serving>>],
     [kind |-> "Exception", returncode |-> 0, lines |-> <<line_serving>>]}

ListremotesOutcomes ==
    {[kind |-> "exit", returncode |-> 0, lines |-> <<Val.od_line>>],
     [kind |-> "exit", returncode |-> 0, lines |-> <<>>],
     [kind |-> "FileNotFoundError", returncode |-> 0, lines |-> <<>>]}

\* str(e) of the exceptions subprocess.run raises (OSError, ValueError,
\* UnicodeDecodeError) is never empty
RunOutcomes ==
    {[kind |-> "exit", returncode |-> 0, stderr |-> <<>>, stdout |-> <<>>, msg |-> <<>>],
     [kind |-> "exit", returncode |-> 1, stderr |-> Val.e, stdout |-> <<>>, msg |-> <<>>],
     [kind |-> "exit", returncode |-> 1, stderr |-> <<" ">>, stdout |-> <<"\n">>, msg |-> <<>>],
     [kind |-> "KeyboardInterrupt", returncode |-> 0, stderr |-> <<>>, stdout |-> <<>>, msg |-> <<>>],
     [kind |-> "FileNotFoundError", returncode |-> 0, stderr |-> <<>>, stdout |-> <<>>, msg |-> <<>>],
     [kind |-> "Exception", returncode |-> 0, stderr |-> <<>>, stdout |-> <<>>, msg |-> Val.boom]}


\* what the operating system may answer to the questions sync asks about dest_config
\* at time t (only an rclone destination has the process list and the remotes read)
Envs(dest_config, t) ==
    LET rclone == get(dest_config, Key.type, <<>>) = s_rclone
    IN  [ps : IF rclone THEN PsOutcomes ELSE {CHOOSE o \in PsOutcomes : o.lines = <<>>},
         listremotes : IF rclone THEN ListremotesOutcomes
                       ELSE {CHOOSE o \in ListremotesOutcomes : o.kind # "exit"},
         run : RunOutcomes,
         took : 0..(IF t < MaxTime THEN 1 ELSE 0)]

NoLast ==
    [idx |-> 0, outcome |-> "none", success |-> FALSE, updates |-> <<>>,
     t_check |-> 0, t_update |-> 0, interval |-> 0, status_before |-> <<>>,
     file_before |-> Absent, all_before |-> TRUE,
     spawned |-> {}, run_kind |-> "none", configured |-> TRUE]

\* the last store operation: its name and arguments, the file it found, the
\* exception that left it, whether it saved, and the operation before it
NoOp == [n |-> 0, name |-> "none", file_before |-> Absent, key |-> <<>>,
         record |-> <<>>, valid |-> <<>>, exc |-> "none", saved |-> FALSE,
         prev |-> <<>>]

FsIdle ==
    /\ dir = [status |-> 0, tmp |-> 0]
    /\ inode = <<>>
    /\ proc = <<>>
    /\ seen = {}
    /\ renamed = <<>>

SchedIdle ==
    /\ sync_destinations = <<>>
    /\ pc = "idle"
    /\ idx = 1
    /\ all_success = TRUE
    /\ result = <<>>
    /\ scheduled = FALSE
    /\ dry_run = FALSE
    /\ password = None
    /\ passes = 0
    /\ last = NoLast
    /\ considered = <<>>
    /\ failedExec = FALSE

(***************************************************************************)
(* Spec: invocations of sync_to_cloud for one repository, one after the    *)
(* other, while time passes.                                               *)
(***************************************************************************)
Init ==
    /\ file \in InitFiles
    /\ now = 0
    /\ sync_destinations \in DestLists
    /\ pc = "idle"
    /\ idx = 1
    /\ all_success = TRUE
    /\ result = <<>>
    /\ scheduled \in BOOLEAN
    /\ dry_run \in BOOLEAN
    /\ password \in {None, Val.pw}
    /\ passes = 0
    /\ last = NoLast
    /\ considered = <<>>
    /\ failedExec = FALSE
    /\ op = NoOp
    /\ FsIdle

\* sync_to_cloud up to the for loop (lines 330-344)
StartRun ==
    /\ pc \in {"idle", "done", "raised"}
    /\ passes < MaxPasses
    /\ IF sync_destinations = <<>>
       THEN pc' = "done" /\ result' = <<TRUE>>
       ELSE IF ~truthy(password)
       THEN pc' = "done" /\ result' = <<FALSE>>
       ELSE pc' = "loop" /\ result' = <<>>
    /\ idx' = 1
    /\ all_success' = TRUE
    /\ last' = NoLast
    /\ considered' = <<>>
    /\ failedExec' = FALSE
    /\ UNCHANGED <<file, now, sync_destinations, scheduled, dry_run, password, passes,
                   op, fsVars>>

\* one pass of the for loop (lines 346-386)
Iterate ==
    /\ pc = "loop"
    /\ idx <= Len(sync_destinations)
    /\ passes < MaxPasses
    /\ \E r \in {loop_body(repo_name, sync_destinations[idx], file, now, all_success,
                            scheduled, dry_run, config_file, password, env) :
                  env \in Envs(sync_destinations[idx], now)} :
          /\ file' = r.file
          /\ now' = r.t_update
          /\ all_success' = r.all_success
          /\ pc' = IF r.outcome = "raised" THEN "raised" ELSE "loop"
          /\ idx' = IF r.outcome = "raised" THEN idx ELSE idx + 1
          /\ last' = [idx |-> idx, outcome |-> r.outcome, success |-> r.success,
                      updates |-> r.updates, t_check |-> now, t_update |-> r.t_update,
                      interval |-> r.interval, status_before |-> r.status_before,
                      file_before |-> file, all_before |-> all_success,
                      spawned |-> r.spawned, run_kind |-> r.run_kind,
                      configured |-> r.configured]
          /\ failedExec' = (failedExec \/
                              (r.outcome \in {"remote", "build", "spawned"} /\ ~r.success))
    /\ considered' = Append(considered, idx)
    /\ passes' = passes + 1
    /\ UNCHANGED <<sync_destinations, result, scheduled, dry_run, password, op, fsVars>>

\* line 388
Return ==
    /\ pc = "loop"
    /\ idx > Len(sync_destinations)
    /\ result' = <<all_success>>
    /\ pc' = "done"
    /\ UNCHANGED <<file, now, sync_destinations, idx, all_success, scheduled, dry_run,
                   password, passes, last, considered, failedExec, op, fsVars>>

\* time passes between invocations
Tick ==
    /\ pc \in {"done", "raised"}
    /\ passes < MaxPasses
    /\ now < MaxTime
    /\ now' = now + 1
    /\ UNCHANGED <<file, schedVars, op, fsVars>>

Next == StartRun \/ Iterate \/ Return \/ Tick

Spec == Init /\ [][Next]_vars

(***************************************************************************)
(* Claims about sync_to_cloud (checked under Spec).                        *)
(***************************************************************************)
\* the record now stored for the destination of the latest pass
StoredNow ==
    get_sync_status_for_destination(
        file, repo_name, get_destination_id(sync_destinations[last.idx]))

\* seconds between the record's last_sync and t: <<>> when last_sync is no
\* timestamp with a UTC offset
Elapsed(record, t) ==
    IF Len(record.last_sync) = 2 /\ record.last_sync[1] \in {"T+00:00", "TZ"}
    THEN <<t - record.last_sync[2]>>
    ELSE <<>>

\* C1: a destination the running-sync guard skips is no failure: the pass makes no
\* call of update_cloud_sync_status, leaves the status file as it was and does not
\* turn all_success to false.
C1_GuardSkipIsNoFailure ==
    last.outcome = "guard" =>
        /\ last.updates = <<>>
        /\ file = last.file_before
        /\ all_success = last.all_before

\* C2: a destination skipped by interval throttling counts as success and leaves
\* the status store untouched: no update call, the file is the same, and the stored
\* last_sync of its key is still the one of the earlier successful sync.
C2_ThrottleSkipLeavesStore ==
    last.outcome = "throttled" =>
        /\ last.updates = <<>>
        /\ all_success = last.all_before
        /\ file = last.file_before
        /\ StoredNow # <<>>
        /\ StoredNow[1].last_sync = last.status_before[1].last_sync
        /\ StoredNow[1].success

C2_Witness ==
    /\ last.outcome = "throttled"
    /\ last.status_before[1].last_sync = isoformat(0)
    /\ now = 1

\* C3: a pass throttles its destination exactly when a record exists for its key
\* with success = true and less than the destination's interval has elapsed since
\* the record's last_sync; otherwise sync is called and, when it succeeds, the
\* stored last_sync is the time at which that attempt completed.
C3_ThrottleIff ==
    last.outcome \notin {"none", "raised"} =>
        /\ last.outcome = "throttled" <=>
              /\ last.status_before # <<>>
              /\ last.status_before[1].success
              /\ Elapsed(last.status_before[1], last.t_check) # <<>>
              /\ Elapsed(last.status_before[1], last.t_check)[1] < last.interval
        /\ last.outcome # "throttled" =>
              /\ Len(last.updates) = 1
              /\ last.success =>
                    /\ StoredNow # <<>>
                    /\ StoredNow[1].success
                    /\ StoredNow[1].last_sync = isoformat(last.t_update)
                    /\ last.t_check <= last.t_update

\* the third invocation of the scenario: a successful record older than the interval
C3_Witness ==
    /\ last.outcome = "spawned"
    /\ last.success
    /\ last.status_before # <<>>
    /\ last.status_before[1].success
    /\ last.status_before[1].last_sync = isoformat(0)
    /\ last.t_check = last.interval
    /\ StoredNow[1].last_sync = isoformat(last.t_check)

\* C4: a destination whose sync subprocess was run and failed gets exactly one
\* update call, for its own key, with success = false and a non-empty error, and
\* that is what the store then holds.
C4_ExecFailureRecorded ==
    (last.outcome = "spawned" /\ ~last.success) =>
        /\ Len(last.updates) = 1
        /\ last.updates[1].key =
              composite_key(repo_name, get_destination_id(sync_destinations[last.idx]))
        /\ last.updates[1].success = FALSE
        /\ truthy(last.updates[1].error)
        /\ StoredNow # <<>>
        /\ StoredNow[1].success = FALSE
        /\ StoredNow[1].error = last.updates[1].error

\* quiet mode, non-zero exit, nothing but blanks on stderr and stdout
C4_Witness ==
    /\ last.outcome = "spawned"
    /\ ~last.success
    /\ scheduled
    /\ StoredNow[1].error = Msg.exited \o <<"1">>

\* C5: sync_to_cloud returns false exactly when some destination's executed
\* (non-skipped) attempt failed in this run, and true otherwise.
C5_AggregateExact ==
    (pc = "done" /\ truthy(password)) => (result = <<FALSE>> <=> failedExec)

\* C6: whatever happens to a destination, the later ones are still considered in
\* configuration order and sync_to_cloud returns a boolean: it never ends by an
\* exception.
C6_FailuresAreLocal ==
    /\ pc # "raised"
    /\ (pc = "done" /\ truthy(password)) =>
          /\ considered = [k \in 1..Len(sync_destinations) |-> k]
          /\ result \in {<<TRUE>>, <<FALSE>>}

(***************************************************************************)
(* SpecStore: the status-store functions called one after the other by a   *)
(* single process.                                                         *)
(***************************************************************************)
ValidRepoLists == {<<>>, <<Val.R>>, <<Val.Q>>, <<Val.R, Val.Q>>}

InitStore ==
    /\ file \in {Absent, Garbage, Unreadable, Undecodable, JsonList, JsonSectionList,
                 json_dump(Doc0)}
    /\ now = 0
    /\ op = NoOp
    /\ SchedIdle
    /\ FsIdle

\* what the next operation remembers of this one
Prev == IF op.name = "none" THEN <<>>
        ELSE <<[name |-> op.name, valid |-> op.valid, saved |-> op.saved, exc |-> op.exc,
                repo |-> IF op.name = "update" THEN op.repo ELSE <<>>,
                key |-> IF op.name = "update" THEN op.key ELSE <<>>]>>

Get ==
    /\ op.n < MaxOps
    /\ \E repo \in {Val.R, Val.Q}, dest_id \in {Val.rclone_od_b, Val.s3_x} :
          LET exc == get_sync_status_for_destination_exc(file)
          IN  op' = [n |-> op.n + 1, name |-> "get", file_before |-> file,
                     key |-> composite_key(repo, dest_id),
                     record |-> IF exc = "none"
                                THEN get_sync_status_for_destination(file, repo, dest_id)
                                ELSE <<>>,
                     valid |-> <<>>, exc |-> exc, saved |-> FALSE, prev |-> Prev]
    /\ UNCHANGED <<file, now, schedVars, fsVars>>

\* the repositories and destinations records are written for: R and Q, and a
\* repository whose name is R, a colon and more
UpdateTargets ==
    ({Val.R, Val.Q} \X {Val.rclone_od_b, Val.s3_x}) \cup {<<Val.R_Q, Val.s3_x>>}

Update ==
    /\ op.n < MaxOps
    /\ \E target \in UpdateTargets, success \in BOOLEAN :
          LET repo == target[1]
              dest_id == target[2]
              error == IF success THEN None ELSE Val.boom
              exc == update_cloud_sync_status_exc(file)
          IN  /\ file' = IF exc = "none"
                         THEN update_cloud_sync_status(file, now, repo, dest_id, success, error)
                         ELSE file
              /\ op' = [n |-> op.n + 1, name |-> "update", file_before |-> file,
                        repo |-> repo,
                        key |-> composite_key(repo, dest_id),
                        record |-> <<[last_sync |-> isoformat(now), success |-> success,
                                     dest_id |-> dest_id, error |-> error]>>,
                        valid |-> <<>>, exc |-> exc, saved |-> exc = "none", prev |-> Prev]
    /\ UNCHANGED <<now, schedVars, fsVars>>

Cleanup ==
    /\ op.n < MaxOps
    /\ \E valid \in ValidRepoLists :
          LET exc == cleanup_status_file_exc(file)
          IN  /\ file' = IF exc = "none" THEN cleanup_status_file(file, valid) ELSE file
              /\ op' = [n |-> op.n + 1, name |-> "cleanup", file_before |-> file,
                        key |-> <<>>, record |-> <<>>, valid |-> valid, exc |-> exc,
                        saved |-> exc = "none" /\ changed(file, valid), prev |-> Prev]
    /\ UNCHANGED <<now, schedVars, fsVars>>

StoreTick ==
    /\ op.n < MaxOps
    /\ now < MaxTime
    /\ now' = now + 1
    /\ UNCHANGED <<file, op, schedVars, fsVars>>

NextStore == Get \/ Update \/ Cleanup \/ StoreTick

SpecStore == InitStore /\ [][NextStore]_vars

\* C10: a load-mutate-save cycle changes only what it targets: the top-level keys
\* other than cloud_sync keep their values; update(R, d) leaves every other record
\* as it was and leaves exactly one record, the one it wrote, under "R:d"; cleanup
\* leaves every record it does not remove as it was and removes only records whose
\* key belongs to no valid repository.
C10_LoadMutateSaveFrame ==
    (op.name \in {"update", "cleanup"} /\ op.exc = "none") =>
        LET before == _load_status_file(op.file_before)
            after == _load_status_file(file)
            cs_before == get(before, "cloud_sync", EmptyDict)
            cs_after == get(after, "cloud_sync", EmptyDict)
        IN  /\ \A k \in DOMAIN before \ {"cloud_sync"} :
                  k \in DOMAIN after /\ after[k] = before[k]
            /\ op.name = "update" =>
                  /\ \A k \in (DOMAIN cs_before \cup DOMAIN cs_after) \ {op.key} :
                        /\ k \in DOMAIN cs_before
                        /\ k \in DOMAIN cs_after
                        /\ cs_after[k] = cs_before[k]
                  /\ Cardinality({k \in DOMAIN cs_after : k = op.key}) = 1
                  /\ cs_after[op.key] = op.record[1]
            /\ op.name = "cleanup" =>
                  /\ DOMAIN cs_after \subseteq DOMAIN cs_before
                  /\ \A k \in DOMAIN cs_after : cs_after[k] = cs_before[k]
                  /\ \A k \in DOMAIN cs_before \ DOMAIN cs_after :
                        ~is_valid_key(k, op.valid)

\* an update that overwrites one of three records of a document with an unknown key
C10_Witness ==
    /\ op.name = "update"
    /\ op.file_before = json_dump(Doc0)
    /\ op.key = Val.R_rclone
    /\ now = 1
    /\ DOMAIN _load_status_file(file) = {"schema", "cloud_sync"}

\* C11: whatever the status file holds, get, update and cleanup (and the load they
\* start with) return without raising.
C11_LoadNeverRaises ==
    op.exc = "none"

\* C12: cleanup(valid) keeps a record exactly when its key is a valid repository
\* name or starts with a valid name followed by a colon, and adds none.
C12_CleanupRemovesExactly ==
    (op.name = "cleanup" /\ op.exc = "none") =>
        /\ (DOMAIN load_cloud_sync_status(file)) \subseteq (DOMAIN load_cloud_sync_status(op.file_before))
        /\ \A key \in (DOMAIN load_cloud_sync_status(op.file_before)) :
              key \in (DOMAIN load_cloud_sync_status(file)) <=>
                  \E i \in 1..Len(op.valid) :
                      LET name == op.valid[i]
                      IN  \/ key = name
                          \/ /\ Len(key) > Len(name)
                             /\ SubSeq(key, 1, Len(name)) = name
                             /\ key[Len(name) + 1] = ":"

\* cleanup(<<R>>) removed "Q:s3:x" and "RQ:x" and kept "R" and "R:rclone:od:b"
C12_Witness ==
    /\ op.name = "cleanup"
    /\ op.valid = <<Val.R>>
    /\ op.file_before = json_dump(Doc0)
    /\ {Val.Q_s3_x, Val.RQ_x} \cap (DOMAIN load_cloud_sync_status(file)) = {}
    /\ {Val.R, Val.R_rclone} \subseteq (DOMAIN load_cloud_sync_status(file))

\* C13: cleanup saves exactly when it removed a record; otherwise the file is left
\* as it was, so a second cleanup with the same valid names never saves.
C13_CleanupSavesOnlyOnChange ==
    (op.name = "cleanup" /\ op.exc = "none") =>
        /\ op.saved <=> (DOMAIN load_cloud_sync_status(file)) # (DOMAIN load_cloud_sync_status(op.file_before))
        /\ ~op.saved => file = op.file_before
        /\ (/\ op.prev # <<>>
            /\ op.prev[1].name = "cleanup"
            /\ op.prev[1].valid = op.valid) => ~op.saved

\* two cleanups in a row with the same valid names: the first saved, the second did not
C13_Witness ==
    /\ op.name = "cleanup"
    /\ op.prev # <<>>
    /\ op.prev[1].name = "cleanup"
    /\ op.prev[1].valid = op.valid
    /\ op.prev[1].saved
    /\ ~op.saved
    /\ (DOMAIN load_cloud_sync_status(file)) # {}

(***************************************************************************)
(* _save_status_file at the level of its system calls.  A directory maps   *)
(* a path to an inode (0: no such file); an inode holds a sequence of      *)
(* cells, one cell per write() the json encoder issues.  A cell <<p, k>>   *)
(* is the k-th piece of the document of process p; <<0, 1>> is the         *)
(* document found at start.  Process p's document is p cells long, so two  *)
(* writers' documents differ in length, as two status documents with       *)
(* different error texts do.                                               *)
(***************************************************************************)
STATUS_FILE == "status"
\* mutant: the document is written straight to the target path
temp_file_is_target == "status"

temp_file == "tmp"

Procs == 1..NProc
DocLen(p) == p
DocText(p) == [k \in 1..DocLen(p) |-> <<p, k>>]
InitDoc == << <<0, 1>> >>
Hole == <<0, 0>>
Complete(c) == c = InitDoc \/ \E p \in Procs : c = DocText(p)

\* write() of one cell at position pos of a file whose content is c
WriteAt(c, pos, cell) ==
    [k \in 1..(IF Len(c) > pos THEN Len(c) ELSE pos) |->
        IF k = pos THEN cell ELSE IF k <= Len(c) THEN c[k] ELSE Hole]

InitFs ==
    /\ \/ dir = [status |-> 0, tmp |-> 0] /\ inode = <<>>
       \/ dir = [status |-> 1, tmp |-> 0] /\ inode = <<InitDoc>>
    /\ proc = [p \in Procs |-> [pc |-> "start", fd |-> 0, off |-> 0]]
    /\ seen = {}
    /\ renamed = <<>>
    /\ file = Absent
    /\ now = 0
    /\ op = NoOp
    /\ SchedIdle

\* _load_status_file: one open-and-read of STATUS_FILE
read_status == IF dir[STATUS_FILE] = 0 THEN {} ELSE {inode[dir[STATUS_FILE]]}

\* update_cloud_sync_status, first half: status = _load_status_file()
FsLoad(p) ==
    /\ proc[p].pc = "start"
    /\ seen' = seen \cup read_status
    /\ proc' = [proc EXCEPT ![p].pc = "open"]
    /\ UNCHANGED <<dir, inode, renamed, file, now, schedVars, op>>

\* open(temp_file, 'w'): creates the file, or truncates the one that is there
FsOpen(p) ==
    /\ proc[p].pc = "open"
    /\ IF dir[temp_file] = 0
       THEN /\ inode' = Append(inode, <<>>)
            /\ dir' = [dir EXCEPT ![temp_file] = Len(inode) + 1]
            /\ proc' = [proc EXCEPT ![p] = [pc |-> "write", fd |-> Len(inode) + 1, off |-> 0]]
       ELSE /\ inode' = [inode EXCEPT ![dir[temp_file]] = <<>>]
            /\ dir' = dir
            /\ proc' = [proc EXCEPT ![p] = [pc |-> "write", fd |-> dir[temp_file], off |-> 0]]
    /\ UNCHANGED <<seen, renamed, file, now, schedVars, op>>

\* json.dump: one write() at the descriptor's own offset; the with block closes
\* the file after the last one
FsWrite(p) ==
    /\ proc[p].pc = "write"
    /\ LET pos == proc[p].off + 1
       IN  /\ inode' = [inode EXCEPT ![proc[p].fd] = WriteAt(@, pos, <<p, pos>>)]
           /\ proc' = [proc EXCEPT ![p].off = pos,
                                   ![p].pc = IF pos = DocLen(p) THEN "rename" ELSE "write"]
    /\ UNCHANGED <<dir, seen, renamed, file, now, schedVars, op>>

\* os.rename(temp_file, STATUS_FILE); a missing temp_file raises an IOError that
\* the except clause logs
FsRename(p) ==
    /\ proc[p].pc = "rename"
    /\ proc' = [proc EXCEPT ![p].pc = "done"]
    /\ IF dir[temp_file] = 0
       THEN UNCHANGED <<dir, renamed>>
       ELSE /\ dir' = IF temp_file = STATUS_FILE THEN dir
                      ELSE [dir EXCEPT ![STATUS_FILE] = dir[temp_file], ![temp_file] = 0]
            /\ renamed' = Append(renamed, p)
    /\ UNCHANGED <<inode, seen, file, now, schedVars, op>>

\* another process of the suite reads the status file
FsRead ==
    /\ dir[STATUS_FILE] # 0
    /\ inode[dir[STATUS_FILE]] \notin seen
    /\ seen' = seen \cup read_status
    /\ UNCHANGED <<dir, inode, proc, renamed, file, now, schedVars, op>>

\* the process dies inside _save_status_file
Crash(p) ==
    /\ proc[p].pc \in {"open", "write", "rename"}
    /\ proc' = [proc EXCEPT ![p].pc = "crashed"]
    /\ UNCHANGED <<dir, inode, seen, renamed, file, now, schedVars, op>>

\* a process starts while no other one is between its load and the end of its save
SerialLoad(p) ==
    /\ \A q \in Procs \ {p} : proc[q].pc \in {"start", "done", "crashed"}
    /\ FsLoad(p)

(***************************************************************************)
(* SpecSave: NProc processes run update_cloud_sync_status at the same      *)
(* time, next to a reader.                                                 *)
(***************************************************************************)
NextSave ==
    \/ \E p \in Procs : FsLoad(p)
    \/ \E p \in Procs : FsOpen(p)
    \/ \E p \in Procs : FsWrite(p)
    \/ \E p \in Procs : FsRename(p)
    \/ FsRead

SpecSave == InitFs /\ [][NextSave]_vars

(***************************************************************************)
(* SpecCrash: the processes run one after the other, and any of them may   *)
(* die inside _save_status_file.                                           *)
(***************************************************************************)
NextCrash ==
    \/ \E p \in Procs : SerialLoad(p)
    \/ \E p \in Procs : FsOpen(p)
    \/ \E p \in Procs : FsWrite(p)
    \/ \E p \in Procs : FsRename(p)
    \/ \E p \in Procs : Crash(p)
    \/ FsRead

SpecCrash == InitFs /\ [][NextCrash]_vars

\* C7: whatever a reader of the status file reads while processes are saving is a
\* complete document: the one found at start or the full document of one writer.
C7_ReadersSeeCompleteDocuments ==
    \A c \in seen : Complete(c)

\* C8: whether or not processes died inside save, the status file is at all times
\* what it was at start (absent or the previous document) until a rename happens,
\* and from then on the complete document of the last process that renamed; a
\* reader never reads anything else.
C8_CrashLeavesCompleteFile ==
    /\ IF renamed = <<>>
       THEN dir[STATUS_FILE] = 0 \/ inode[dir[STATUS_FILE]] = InitDoc
       ELSE /\ dir[STATUS_FILE] # 0
            /\ inode[dir[STATUS_FILE]] = DocText(renamed[Len(renamed)])
    /\ \A c \in seen : Complete(c)

\* a process died after the first of its writes, leaving a partial temporary
\* file next to the document saved before it
C8_Witness ==
    \E p \in Procs :
        /\ proc[p].pc = "crashed"
        /\ proc[p].off >= 1
        /\ proc[p].off < DocLen(p)
        /\ dir[temp_file] # 0
        /\ inode[dir[temp_file]] # DocText(p)
        /\ renamed # <<>>
        /\ dir[STATUS_FILE] # 0

\* C9: once all concurrent updaters have finished, the status file exists and
\* holds the complete document of one of them, never a mixture.
C9_LastWriterWins ==
    (\A p \in Procs : proc[p].pc = "done") =>
        /\ dir[STATUS_FILE] # 0
        /\ \E p \in Procs : inode[dir[STATUS_FILE]] = DocText(p)

(***************************************************************************)
(* SpecRunner: the methods of KopiaSyncRunner that compute without         *)
(* touching the system; one call, on a configuration of any kind.          *)
(***************************************************************************)
\* the values of sync-args
SyncArgLists ==
    {<<>>, <<Val.tps>>, <<Val.tps, Val.ten>>, <<Flag.flat>>, <<Flag.rclone_debug, Flag.dry_run>>,
     <<Flag.rclone_args \o Val.tps>>}

\* destination configurations: every backend type, an unknown one, an empty one and
\* none at all; every subset of the required parameters (each with its own name as
\* value); with and without sync-args
BuildConfigs ==
    LET types == {(Key.type :> t) : t \in DOMAIN BACKEND_PARAMS \cup {Val.ftp, <<>>}}
                 \cup {EmptyDict}
        required(typ) ==
            IF Key.type \in DOMAIN typ /\ typ[Key.type] \in DOMAIN BACKEND_PARAMS
            THEN {BACKEND_PARAMS[typ[Key.type]].required[k] :
                      k \in 1..Len(BACKEND_PARAMS[typ[Key.type]].required)}
            ELSE {Key.bucket}
        args == {(Key.sync_args :> a) : a \in SyncArgLists} \cup {EmptyDict}
    IN  UNION {{typ @@ [k \in S |-> k] @@ a : S \in SUBSET required(typ), a \in args} :
                  typ \in types}

InitRunner ==
    /\ op = NoOp
    /\ file = Absent
    /\ now = 0
    /\ SchedIdle
    /\ FsIdle

Build ==
    /\ op.name = "none"
    /\ \E dest_config \in BuildConfigs, dryRun \in BOOLEAN :
          op' = [name |-> "build", dest_config |-> dest_config, dry_run |-> dryRun,
                 built |-> build_sync_command(dest_config, config_file, Val.pw, dryRun)]
    /\ UNCHANGED <<file, now, schedVars, fsVars>>

\* remote paths: three paths, and each of them with "/subdir" and "-other" appended
ServedPaths ==
    {P \o suffix : P \in {Val.od_b, Val.od_line, Val.od_b_c},
                   suffix \in {<<>>, Val.subdir, Val.other}}

\* the paths a destination may name: the served ones, and paths that go on after
\* a blank
CheckedPaths ==
    ServedPaths \cup {P \o Val.addr : P \in {Val.od_b, Val.od_line, Val.od_b_c}}

\* the command line of an rclone that kopia started to serve the path `served`
ServingLine(served, shape) ==
    shape.pre \o s_serve \o shape.ws \o Type.webdav \o shape.ws
    \o shape.quote \o served \o shape.quote \o shape.tail

Match ==
    /\ op.name = "none"
    /\ \E served \in ServedPaths, checked \in CheckedPaths,
          shape \in [pre : {s_rclone \o <<" ">>, Val.rclone_v},
                     ws : {<<" ">>, <<" ", " ">>},
                     quote : {<<>>, <<"\"">>, <<"'">>},
                     tail : {<<>>, Val.addr}] :
          op' = [name |-> "match", served |-> served, checked |-> checked,
                 quote |-> shape.quote, line |-> ServingLine(served, shape),
                 result |-> _path_in_cmdline(ServingLine(served, shape), checked)]
    /\ UNCHANGED <<file, now, schedVars, fsVars>>

\* strings of quotes, slashes and a letter
PathStrings == UNION {[1..n -> {"a", "/", "\"", "'"}] : n \in 0..MaxPathLen}

Normalize ==
    /\ op.name = "none"
    /\ \E path \in PathStrings :
          op' = [name |-> "normalize", path |-> path,
                 once |-> _normalize_remote_path(path),
                 twice |-> _normalize_remote_path(_normalize_remote_path(path))]
    /\ UNCHANGED <<file, now, schedVars, fsVars>>

\* destinations for the guard: of several types, the remote path absent, empty,
\* served or not served by the line of PsOutcomes
GuardConfigs ==
    LET types == {(Key.type :> t) : t \in {s_rclone, Type.s3, Type.webdav, Val.ftp}}
                 \cup {EmptyDict}
        paths == {(Key.remote_path :> p) : p \in {<<>>, Val.od_b, Val.od_b \o <<"/">>,
                                                   Val.od_b_c}}
                 \cup {EmptyDict}
    IN  {typ @@ p : typ \in types, p \in paths}

\* the command line of the helper of a sync that kopia started with
\* --remote-path=remote_path
HelperLine(remote_path) ==
    ServingLine(remote_path, [pre |-> Val.rclone_v, ws |-> <<" ">>, quote |-> <<>>,
                              tail |-> Val.addr])

\* the answers of the process listing while the sync of dest_config is in progress
OwnPs(dest_config) ==
    IF Key.remote_path \in DOMAIN dest_config
    THEN {[kind |-> "exit", returncode |-> 0,
           lines |-> <<HelperLine(dest_config[Key.remote_path])>>]}
    ELSE {}

IsRunning ==
    /\ op.name = "none"
    /\ \E dest_config \in GuardConfigs :
       \E ps \in PsOutcomes \cup OwnPs(dest_config) :
          op' = [name |-> "is_running", dest_config |-> dest_config, ps |-> ps,
                 running |-> is_sync_already_running(dest_config, ps)]
    /\ UNCHANGED <<file, now, schedVars, fsVars>>

\* destinations to name: every backend type, an unknown one and none; every subset
\* of the parameters a name is made of; alone, or with an interval, sync-args and
\* the parameters that no name is made of
IdConfigs ==
    LET types == {(Key.type :> t) : t \in DOMAIN BACKEND_PARAMS \cup {Val.ftp}}
                 \cup {EmptyDict}
        named == (Key.remote_path :> Val.od_b) @@ (Key.bucket :> Val.bk)
                 @@ (Key.container :> Val.c) @@ (Key.folder_id :> Val.one)
                 @@ (Key.path :> Val.subdir) @@ (Key.host :> Val.old)
                 @@ (Key.url :> Val.addr)
        others == (Key.interval :> Val.i2s) @@ (Key.sync_args :> <<Val.tps>>)
                  @@ (Key.storage_account :> Val.Q) @@ (Key.username :> Val.R)
        required(typ) ==
            IF Key.type \in DOMAIN typ /\ typ[Key.type] \in DOMAIN BACKEND_PARAMS
            THEN {BACKEND_PARAMS[typ[Key.type]].required[k] :
                      k \in 1..Len(BACKEND_PARAMS[typ[Key.type]].required)}
                 \cap DOMAIN named
            ELSE {Key.bucket}
    IN  UNION {{typ @@ [k \in S |-> named[k]] @@ rest :
                    S \in SUBSET required(typ), rest \in {EmptyDict, others}} :
                  typ \in types}

Identify ==
    /\ op.name = "none"
    /\ \E dest_config \in IdConfigs :
          op' = [name |-> "identify", dest_config |-> dest_config,
                 dest_id |-> get_destination_id(dest_config)]
    /\ UNCHANGED <<file, now, schedVars, fsVars>>

\* repository passwords: plain, with a blank, with a double quote and a backslash,
\* and one that reads like an argument of the command
Passwords == {Val.pw, <<"p", " ", "w">>, <<"\\", "\"">>, Val.tps}

\* two calls of sync on the same destination in the same surroundings (nothing
\* served, the remote configured, kopia ending as `run` says) with two passwords
Render ==
    /\ op.name = "none"
    /\ \E dest_config \in BuildConfigs, quiet \in BOOLEAN, dryRun \in BOOLEAN,
          pw2 \in Passwords, run \in {r \in RunOutcomes : r.returncode = 0} :
          LET remote == before_colon(get(dest_config, Key.remote_path, <<>>))
              env == [ps |-> [kind |-> "exit", returncode |-> 0, lines |-> <<>>],
                      listremotes |-> [kind |-> "exit", returncode |-> 0,
                                       lines |-> <<remote \o <<":">>>>],
                      run |-> run]
          IN  op' = [name |-> "render", dest_config |-> dest_config, quiet |-> quiet,
                     dry_run |-> dryRun, pw1 |-> Val.pw, pw2 |-> pw2,
                     log1 |-> sync(dest_config, config_file, Val.pw, quiet, dryRun, env).log,
                     log2 |-> sync(dest_config, config_file, pw2, quiet, dryRun, env).log]
    /\ UNCHANGED <<file, now, schedVars, fsVars>>

\* destinations one repository may sync to side by side: each with all the required
\* parameters of its type, differing in one of them or in the type
SiblingConfigs ==
    LET azure(container, account) ==
            (Key.type :> Type.azure) @@ (Key.container :> container)
            @@ (Key.storage_account :> account)
        sftp(host, path, username) ==
            (Key.type :> Type.sftp) @@ (Key.path :> path) @@ (Key.host :> host)
            @@ (Key.username :> username)
        bucket(t, b) == (Key.type :> t) @@ (Key.bucket :> b)
        rclone(remote_path) == (Key.type :> s_rclone) @@ (Key.remote_path :> remote_path)
    IN  {azure(Val.c, Val.R), azure(Val.c, Val.Q), azure(Val.bk, Val.R),
         sftp(Val.od_b, Val.c, Val.R), sftp(<<"o", "d">>, <<"b", ":", "c">>, Val.R),
         sftp(Val.od_b, Val.c, Val.Q),
         bucket(Type.s3, Val.bk), bucket(Type.s3, Val.c), bucket(Type.gcs, Val.bk),
         rclone(Val.od_b), rclone(Val.od_b_c)}

\* the identities of two destinations of one repository, and the keys their
\* records are stored under
Compare ==
    /\ op.name = "none"
    /\ \E a \in SiblingConfigs, b \in SiblingConfigs :
          op' = [name |-> "compare", a |-> a, b |-> b,
                 id_a |-> get_destination_id(a), id_b |-> get_destination_id(b),
                 key_a |-> composite_key(repo_name, get_destination_id(a)),
                 key_b |-> composite_key(repo_name, get_destination_id(b))]
    /\ UNCHANGED <<file, now, schedVars, fsVars>>

\* one call of sync: the process listing as any of PsOutcomes or as it reads while
\* the sync of the same configuration is in progress, the remotes as any of
\* ListremotesOutcomes, kopia ending with exit code 0 or 1
Sync ==
    /\ op.name = "none"
    /\ \E dest_config \in GuardConfigs, quiet \in BOOLEAN :
       \E ps \in PsOutcomes \cup OwnPs(dest_config),
          listremotes \in ListremotesOutcomes,
          run \in {r \in RunOutcomes : r.kind = "exit" /\ r.stdout = <<>>} :
          LET env == [ps |-> ps, listremotes |-> listremotes, run |-> run]
          IN  op' = [name |-> "sync", dest_config |-> dest_config, ps |-> ps,
                     listremotes |-> listremotes, run |-> run,
                     quiet |-> quiet,
                     running |-> is_sync_already_running(dest_config, ps),
                     result |-> sync(dest_config, config_file, Val.pw, quiet, FALSE, env)]
    /\ UNCHANGED <<file, now, schedVars, fsVars>>

NextRunner ==
    Build \/ Match \/ Normalize \/ IsRunning \/ Identify \/ Render \/ Sync \/ Compare

SpecRunner == InitRunner /\ [][NextRunner]_vars

\* C14: when required parameters of a known backend type are missing, build returns
\* no argument vector and an error whose list names every one of them.
C14_AllMissingNamed ==
    LET dest_type == get(op.dest_config, Key.type, None)
        required == BACKEND_PARAMS[dest_type].required
        missing == {required[k] : k \in 1..Len(required)} \ DOMAIN op.dest_config
        heading == Msg.missing_req \o dest_type \o <<":", " ">>
        error == op.built.error
    IN  (op.name = "build" /\ dest_type \in DOMAIN BACKEND_PARAMS /\ missing # {}) =>
            /\ op.built.cmd = None
            /\ error # None
            /\ startswith(error, heading)
            /\ \A p \in missing :
                  contains(SubSeq(error, Len(heading) + 1, Len(error)), p)

\* azure with neither container nor storage-account
C14_Witness ==
    /\ op.name = "build"
    /\ get(op.dest_config, Key.type, None) = Type.azure
    /\ {Key.container, Key.storage_account} \cap DOMAIN op.dest_config = {}
    /\ op.built.cmd = None
    /\ contains(op.built.error, Key.container)
    /\ contains(op.built.error, Key.storage_account)

\* C15 as stated: a built vector holds --rclone-debug exactly when the backend type
\* is rclone, whatever the sync args.
C15_DebugIffRclone ==
    (op.name = "build" /\ op.built.cmd # None) =>
        ((\E k \in 1..Len(op.built.cmd) : op.built.cmd[k] = Flag.rclone_debug)
            <=> op.dest_config[Key.type] = s_rclone)

\* C15 amended: the vector without its trailing sync args holds --rclone-debug
\* exactly when the backend type is rclone.
C15_DebugIffRcloneBeforeArgs ==
    (op.name = "build" /\ op.built.cmd # None) =>
        LET cmd == op.built.cmd
            n == Len(get(op.dest_config, Key.sync_args, <<>>))
        IN  (\E k \in 1..(Len(cmd) - n) : cmd[k] = Flag.rclone_debug)
                <=> op.dest_config[Key.type] = s_rclone

\* an rclone destination with sync args, and the flag ahead of them
C15_Witness ==
    /\ op.name = "build"
    /\ op.built.cmd # None
    /\ op.dest_config[Key.type] = s_rclone
    /\ get(op.dest_config, Key.sync_args, <<>>) = <<Val.tps, Val.ten>>
    /\ \E k \in 1..(Len(op.built.cmd) - 2) : op.built.cmd[k] = Flag.rclone_debug

\* C16 as stated: a built vector holds --delete, and holds --flat exactly when the
\* backend type is rclone, s3, gcs, azure, b2 or gdrive.
C16_DeleteAndFlat ==
    (op.name = "build" /\ op.built.cmd # None) =>
        LET cmd == op.built.cmd
        IN  /\ \E k \in 1..Len(cmd) : cmd[k] = Flag.delete
            /\ (\E k \in 1..Len(cmd) : cmd[k] = Flag.flat)
                  <=> op.dest_config[Key.type] \in {s_rclone, Type.s3, Type.gcs, Type.azure, Type.b2, Type.gdrive}

\* C16 amended: the vector without its trailing sync args holds --delete, and holds
\* --flat exactly when the backend type is rclone, s3, gcs, azure, b2 or gdrive.
C16_DeleteAndFlatBeforeArgs ==
    (op.name = "build" /\ op.built.cmd # None) =>
        LET cmd == op.built.cmd
            n == Len(get(op.dest_config, Key.sync_args, <<>>))
        IN  /\ \E k \in 1..(Len(cmd) - n) : cmd[k] = Flag.delete
            /\ (\E k \in 1..(Len(cmd) - n) : cmd[k] = Flag.flat)
                  <=> op.dest_config[Key.type] \in {s_rclone, Type.s3, Type.gcs, Type.azure, Type.b2, Type.gdrive}

\* an sftp destination whose sync args ask for --flat: none ahead of the args
C16_Witness ==
    /\ op.name = "build"
    /\ op.built.cmd # None
    /\ op.dest_config[Key.type] = Type.sftp
    /\ get(op.dest_config, Key.sync_args, <<>>) = <<Flag.flat>>
    /\ op.built.cmd[Len(op.built.cmd)] = Flag.flat
    /\ \A k \in 1..(Len(op.built.cmd) - 1) : op.built.cmd[k] # Flag.flat

C18_VectorOrder ==
    (op.name = "build" /\ op.built.cmd # None) =>
        LET cmd == op.built.cmd
            dest_type == op.dest_config[Key.type]
            table == BACKEND_PARAMS[dest_type]
            m == Len(table.required)
            sync_args == get(op.dest_config, Key.sync_args, <<>>)
            flat == IF dest_type \in {s_rclone, Type.s3, Type.gcs, Type.azure, Type.b2, Type.gdrive}
                    THEN 1 ELSE 0
            debug == IF dest_type = s_rclone THEN 1 ELSE 0
            dry == IF op.dry_run THEN 1 ELSE 0
        IN  /\ Len(cmd) = 6 + m + 1 + flat + debug + dry + Len(sync_args)
            /\ cmd[1] = KOPIA_EXE
            /\ cmd[2] = Flag.config_file \o config_file
            /\ cmd[3] = Flag.password \o Val.pw
            /\ cmd[4] = Flag.repository
            /\ cmd[5] = Flag.sync_to
            /\ cmd[6] = dest_type
            /\ \A k \in 1..m :
                  cmd[6 + k] = table.cmd_prefix[k] \o op.dest_config[table.required[k]]
            /\ cmd[7 + m] = Flag.delete
            /\ flat = 1 => cmd[8 + m] = Flag.flat
            /\ debug = 1 => cmd[8 + m + flat] = Flag.rclone_debug
            /\ dry = 1 => cmd[8 + m + flat + debug] = Flag.dry_run
            /\ \A k \in 1..Len(sync_args) :
                  cmd[7 + m + flat + debug + dry + k] =
                      IF dest_type = s_rclone THEN Flag.rclone_args \o sync_args[k]
                      ELSE sync_args[k]

\* a dry run to an rclone destination with sync args: every optional part is there
C18_Witness ==
    /\ op.name = "build"
    /\ op.built.cmd # None
    /\ op.dest_config[Key.type] = s_rclone
    /\ op.dry_run
    /\ get(op.dest_config, Key.sync_args, <<>>) = <<Val.tps, Val.ten>>
    /\ Len(op.built.cmd) = 13

\* C19: on a line that serves a path, quoted or not, the check for that path matches;
\* the check for any longer path that starts with it does not; and the check for a
\* path does not match a line that serves the path with "/subdir" or "-other" added.
C19_NonPrefixMatching ==
    op.name = "match" =>
        /\ op.checked = op.served => op.result
        /\ (/\ Len(op.checked) > Len(op.served)
            /\ SubSeq(op.checked, 1, Len(op.served)) = op.served) => ~op.result
        /\ op.served \in {op.checked \o Val.subdir, op.checked \o Val.other} => ~op.result

\* C20: normalizing twice gives what normalizing once gives, and a string, the
\* string with a slash appended and the string in double or single quotes all
\* normalize to the same string.
C20_NormalizeIdempotent ==
    op.name = "normalize" =>
        /\ op.twice = op.once
        /\ _normalize_remote_path(op.path \o <<"/">>) = op.once
        /\ _normalize_remote_path(<<"\"">> \o op.path \o <<"\"">>) = op.once
        /\ _normalize_remote_path(<<"'">> \o op.path \o <<"'">>) = op.once

(***************************************************************************)
(* SpecScripts: the scheduler's updates, the start of kopia-start-backups   *)
(* and the cloud part of kopia-health-check, on one status file.           *)
(***************************************************************************)
\* str.split(sep) for a separator of one character
RECURSIVE split(_, _)
split(s, sep) ==
    IF \A k \in 1..Len(s) : s[k] # sep THEN <<s>>
    ELSE LET k == CHOOSE j \in 1..Len(s) : s[j] = sep /\ \A h \in 1..(j - 1) : s[h] # sep
         IN  <<SubSeq(s, 1, k - 1)>> \o split(SubSeq(s, k + 1, Len(s)), sep)

\* [r['name'] for r in repositories]
names(repositories) == [k \in 1..Len(repositories) |-> repositories[k]["name"]]

\* mutant: the repositories are filtered before the cleanup
main_startup_filter_first(f, repositories, repo) ==
    LET parts == split(repo, ",")
        repo_filter == {strip(parts[k], Whitespace) : k \in 1..Len(parts)}
        selected == IF truthy(repo)
                    THEN SelectSeq(repositories, LAMBDA r : r["name"] \in repo_filter)
                    ELSE repositories
    IN  [file |-> cleanup_status_file(f, names(selected)),
         repositories |-> selected,
         exit |-> truthy(repo) /\ selected = <<>>]

\* main, lines 446-457: the cleanup with the names of all configured repositories,
\* then the --repo filter; exit: sys.exit(1) for a filter that selects nothing
main_startup(f, repositories, repo) ==
    LET all_repo_names == names(repositories)
        parts == split(repo, ",")
        repo_filter == {strip(parts[k], Whitespace) : k \in 1..Len(parts)}
        selected == IF truthy(repo)
                    THEN SelectSeq(repositories, LAMBDA r : r["name"] \in repo_filter)
                    ELSE repositories
    IN  [file |-> cleanup_status_file(f, all_repo_names),
         repositories |-> selected,
         exit |-> truthy(repo) /\ selected = <<>>]

\* repositories of the configuration: with one destination, with none
RepoConfig(name, sync_to) == ("name" :> name) @@ ("sync-to" :> sync_to)

ConfigLists ==
    {<<RepoConfig(Val.Q, <<DestS3>>)>>,
     <<RepoConfig(Val.R, <<DestRclone>>), RepoConfig(Val.Q, <<>>)>>,
     <<RepoConfig(Val.R, <<DestRclone>>), RepoConfig(Val.Q, <<DestS3>>)>>}

\* args.repo: absent, one name, two names with blanks, a name not configured
RepoArgs == {None, Val.R, <<" ">> \o Val.R \o <<" ", ",">> \o Val.Q, Val.RQ_x}

\* the start of one run of kopia-start-backups, the last operation considered
Startup ==
    /\ op.n = MaxOps - 1
    /\ \E repositories \in ConfigLists, repo \in RepoArgs :
          LET exc == cleanup_status_file_exc(file)
              started == main_startup(file, repositories, repo)
          IN  /\ file' = IF exc = "none" THEN started.file ELSE file
              /\ op' = [n |-> op.n + 1, name |-> "startup", file_before |-> file,
                        key |-> <<>>, record |-> <<>>, valid |-> names(repositories),
                        repo |-> repo,
                        selected |-> IF exc = "none" THEN names(started.repositories)
                                     ELSE <<>>,
                        exit |-> exc = "none" /\ started.exit,
                        exc |-> exc,
                        saved |-> exc = "none" /\ file' # file, prev |-> Prev]
    /\ UNCHANGED <<now, schedVars, fsVars>>

\* kopia_utils.has_remote_destination
has_remote_destination(repo_config) ==
    LET sync_to == get(repo_config, "sync-to", <<>>)
    IN  sync_to # <<>> /\ Len(sync_to) > 0

\* the exception that leaves check_cloud_sync_status: a list has no get
check_cloud_sync_status_exc(f) ==
    IF _load_status_file_exc(f) # "none" THEN _load_status_file_exc(f)
    ELSE IF f = JsonList THEN "AttributeError"
    ELSE "none"

\* kopia-health-check.py, check_cloud_sync_status at time t (seconds); repo_filter
\* is <<>> for None or <<names>> for a list of names.  The result is the pair of lists
\* [failures, stale_syncs], the last_sync of a stale entry being the parsed one.
check_cloud_sync_status(f, repositories, stale_threshold_minutes, t, repo_filter) ==
    LET status == load_cloud_sync_status(f)
        threshold == t - 60 * stale_threshold_minutes
        selected == SelectSeq(repositories,
                        LAMBDA repo : /\ has_remote_destination(repo)
                                      /\ \/ repo_filter = <<>>
                                         \/ \E k \in 1..Len(repo_filter[1]) :
                                               repo_filter[1][k] = repo["name"])
        cloud_repos == names(selected)
        recorded == SelectSeq(cloud_repos, LAMBDA name : name \in DOMAIN status)
        failed == SelectSeq(recorded, LAMBDA name : ~status[name].success)
        is_stale(name) ==
            /\ status[name].success
            /\ truthy(status[name].last_sync)
            /\ LET last_sync == fromisoformat_utc(status[name].last_sync)
               IN  /\ last_sync.ok
                   /\ last_sync.aware       \* naive < aware raises TypeError: pass
                   /\ last_sync.t < threshold
        stale == SelectSeq(recorded, is_stale)
    IN  IF DOMAIN status = {} THEN [failures |-> <<>>, stale_syncs |-> <<>>]
        ELSE [failures |->
                 [k \in 1..Len(failed) |->
                     [repo |-> failed[k], remote |-> Type.unknown,
                      error |-> status[failed[k]].error,
                      last_sync |-> status[failed[k]].last_sync]],
              stale_syncs |->
                 [k \in 1..Len(stale) |->
                     [repo |-> stale[k], remote |-> Type.unknown,
                      last_sync |-> fromisoformat_utc(status[stale[k]].last_sync).t]]]

\* health_check_stale_minutes
StaleMinutes == {0, 1}

\* one run of the health check, the last operation considered
HealthCheck ==
    /\ op.n = MaxOps - 1
    /\ \E repositories \in ConfigLists, stale_threshold_minutes \in StaleMinutes,
          repo_filter \in {<<>>, <<<<Val.R>>>>} :
          LET exc == check_cloud_sync_status_exc(file)
          IN  op' = [n |-> op.n + 1, name |-> "health", file_before |-> file,
                     key |-> <<>>, record |-> <<>>, valid |-> <<>>,
                     repositories |-> repositories,
                     stale_threshold_minutes |-> stale_threshold_minutes,
                     repo_filter |-> repo_filter,
                     checked |-> IF exc = "none"
                                 THEN check_cloud_sync_status(
                                          file, repositories, stale_threshold_minutes,
                                          now, repo_filter)
                                 ELSE [failures |-> <<>>, stale_syncs |-> <<>>],
                     exc |-> exc, saved |-> FALSE, prev |-> Prev]
    /\ UNCHANGED <<file, now, schedVars, fsVars>>

NextScripts == Update \/ StoreTick \/ Startup \/ HealthCheck

SpecScripts == InitStore /\ [][NextScripts]_vars

\* C37: the start of the backup script with a --repo filter deletes no status
\* record of a repository that is still configured, selected or not: every record
\* whose key is a configured name, or starts with one and a colon, is kept as it
\* was, whatever the filter.
C37_FilterKeepsConfiguredRecords ==
    op.name = "startup" =>
        LET before == load_cloud_sync_status(op.file_before)
            after == load_cloud_sync_status(file)
        IN  \A key \in DOMAIN before :
               (\E k \in 1..Len(op.valid) :
                    key = op.valid[k] \/ startswith(key, op.valid[k] \o <<":">>))
               => key \in DOMAIN after /\ after[key] = before[key]

\* R and Q are configured, --repo selects R alone, and the cleanup removed a
\* record of a repository that is not configured while Q's record is still there
C37_Witness ==
    /\ op.name = "startup"
    /\ op.valid = <<Val.R, Val.Q>>
    /\ op.selected = <<Val.R>>
    /\ op.saved
    /\ Val.RQ_x \in DOMAIN load_cloud_sync_status(op.file_before)
    /\ Val.RQ_x \notin DOMAIN load_cloud_sync_status(file)
    /\ Val.Q_s3_x \in DOMAIN load_cloud_sync_status(file)

\* C38: after update_cloud_sync_status wrote a record for a destination of a
\* configured repository R, the health check reports what the record says: a
\* failure entry for R when success is false, a stale entry for R when success is
\* true and last_sync is before the stale threshold.
C38_HealthCheckReadsUpdates ==
    LET u == op.prev[1]
        written == load_cloud_sync_status(file)[u.key]
        threshold == now - 60 * op.stale_threshold_minutes
        of_configured ==
            \E k \in 1..Len(op.repositories) :
               /\ op.repositories[k]["name"] = u.repo
               /\ \E j \in 1..Len(op.repositories[k]["sync-to"]) :
                     u.key = composite_key(u.repo,
                                 get_destination_id(op.repositories[k]["sync-to"][j]))
        has(entries) == \E k \in 1..Len(entries) : entries[k].repo = u.repo
    IN  (/\ op.name = "health" /\ op.exc = "none"
         /\ op.prev # <<>>
         /\ u.name = "update" /\ u.saved
         /\ op.repo_filter = <<>>
         /\ of_configured)
        => /\ ~written.success => has(op.checked.failures)
           /\ written.success /\ written.last_sync[2] < threshold
                 => has(op.checked.stale_syncs)

(***************************************************************************)
(* SpecRace: NProc invocations of KopiaSyncRunner.sync at the same time,    *)
(* each for one rclone destination, and the process table they look at.    *)
(***************************************************************************)
\* rclone destinations two runs may sync to: the same path, or a path below it
RaceDests ==
    {(Key.type :> s_rclone) @@ (Key.remote_path :> p) : p \in {Val.od_b, Val.od_b_c}}

\* before sync is called
NotCalled(dest_config) ==
    [pc |-> "idle", dest_config |-> dest_config, ticket |-> 0, helper |-> FALSE,
     ps |-> [kind |-> "none", returncode |-> 0, lines |-> <<>>],
     running |-> <<FALSE, <<>>, FALSE>>]

InitRace ==
    /\ file = Absent
    /\ now = 0
    /\ op = NoOp
    /\ SchedIdle
    /\ dir = [status |-> 0, tmp |-> 0]
    /\ inode = <<>>
    /\ seen = {}
    /\ renamed = <<>>
    /\ proc \in [Procs -> {NotCalled(d) : d \in RaceDests}]

\* what `ps aux` prints about the helpers that are up
ProcessTable ==
    LET up == SelectSeq([p \in Procs |-> p], LAMBDA p : proc[p].helper)
    IN  [k \in 1..Len(up) |-> HelperLine(proc[up[k]].dest_config[Key.remote_path])]

\* lines 1032-1047 of sync in invocation p: the guard lists the processes (the
\* listing works, exits with 1 or raises), then the remote, which is configured,
\* is checked and the command is built
Guard(p) ==
    /\ proc[p].pc = "idle"
    /\ \E out \in {[kind |-> "exit", returncode |-> 0], [kind |-> "exit", returncode |-> 1],
                   [kind |-> "Exception", returncode |-> 0]} :
          LET ps == [kind |-> out.kind, returncode |-> out.returncode,
                     lines |-> ProcessTable]
              env == [ps |-> ps,
                      listremotes |-> [kind |-> "exit", returncode |-> 0,
                                       lines |-> <<Val.od_line>>],
                      run |-> CHOOSE r \in RunOutcomes : r.kind = "exit" /\ r.returncode = 0]
              called == sync(proc[p].dest_config, config_file, Val.pw, TRUE, FALSE, env)
          IN  proc' = [proc EXCEPT ![p] =
                          [@ EXCEPT !.pc = IF "kopia" \in called.spawned
                                           THEN "checked" ELSE "returned",
                                    !.ticket = Cardinality({q \in Procs : proc[q].pc # "idle"}) + 1,
                                    !.ps = ps,
                                    !.running = is_sync_already_running(
                                                    proc[p].dest_config, ps)]]
    /\ UNCHANGED <<file, now, schedVars, op, dir, inode, seen, renamed>>

\* subprocess.run starts kopia (lines 1056-1075)
Spawn(p) ==
    /\ proc[p].pc = "checked"
    /\ proc' = [proc EXCEPT ![p].pc = "kopia"]
    /\ UNCHANGED <<file, now, schedVars, op, dir, inode, seen, renamed>>

\* kopia has started its helper, rclone serve webdav <remote-path>
HelperUp(p) ==
    /\ proc[p].pc = "kopia"
    /\ ~proc[p].helper
    /\ proc' = [proc EXCEPT ![p].helper = TRUE]
    /\ UNCHANGED <<file, now, schedVars, op, dir, inode, seen, renamed>>

\* kopia and its helper end, subprocess.run returns
Finish(p) ==
    /\ proc[p].pc = "kopia"
    /\ proc' = [proc EXCEPT ![p].pc = "returned", ![p].helper = FALSE]
    /\ UNCHANGED <<file, now, schedVars, op, dir, inode, seen, renamed>>

NextRace == \E p \in Procs : Guard(p) \/ Spawn(p) \/ HelperUp(p) \/ Finish(p)

SpecRace == InitRace /\ [][NextRace]_vars

\* invocations p and q run kopia for the same remote path
Overlap(p, q) ==
    /\ p # q
    /\ proc[p].pc = "kopia" /\ proc[q].pc = "kopia"
    /\ proc[p].dest_config = proc[q].dest_config

\* C32: the guard gives no mutual exclusion.  Two kopia syncs to the same rclone
\* destination run at the same time only when the invocation that checked later
\* took its process listing before the helper of the other was in the table (the
\* gap) or its listing failed; a listing that works and shows the helper stops it.
C32_OverlapOnlyThroughTheGap ==
    \A p \in Procs, q \in Procs :
        (Overlap(p, q) /\ proc[p].ticket < proc[q].ticket) =>
            \/ proc[q].ps.kind # "exit"
            \/ proc[q].ps.returncode # 0
            \/ \A k \in 1..Len(proc[q].ps.lines) :
                  proc[q].ps.lines[k] # HelperLine(proc[p].dest_config[Key.remote_path])

\* both listings worked, the second was taken while the first kopia had no helper
\* yet, and now both kopias run with their helpers up
C32_Witness ==
    \E p \in Procs, q \in Procs :
        /\ Overlap(p, q)
        /\ proc[p].ticket < proc[q].ticket
        /\ proc[p].ps.kind = "exit" /\ proc[p].ps.returncode = 0
        /\ proc[q].ps.kind = "exit" /\ proc[q].ps.returncode = 0
        /\ proc[q].ps.lines = <<>>
        /\ proc[p].helper /\ proc[q].helper

\* C21: the guard answers (False, "") without running the process listing when the
\* type is not rclone or the remote path is empty or absent; the listing is run
\* only for an rclone destination with a remote path.
C21_EnumerationOnlyForRclonePath ==
    LET checked == /\ get(op.dest_config, Key.type, <<>>) = s_rclone
                   /\ get(op.dest_config, Key.remote_path, <<>>) # <<>>
    IN  op.name = "is_running" =>
            /\ ~checked => op.running = <<FALSE, <<>>, FALSE>>
            /\ op.running[3] <=> checked

\* an s3 destination that names the served path, while the path is being served
C21_Witness ==
    /\ op.name = "is_running"
    /\ get(op.dest_config, Key.type, <<>>) = Type.s3
    /\ get(op.dest_config, Key.remote_path, <<>>) = Val.od_b
    /\ op.ps.kind = "exit" /\ op.ps.returncode = 0 /\ op.ps.lines = <<line_serving>>
    /\ op.running = <<FALSE, <<>>, FALSE>>

\* C22: the identity is made of the type and the identifying parameter alone:
\* rclone and remote-path ("unknown" if absent), s3/gcs/b2 and bucket, azure and
\* container, gdrive and folder-id, filesystem and path, sftp and host and path,
\* webdav and url, "<type>:unknown" for any other type; a configuration and the
\* same configuration without its other parameters have the same identity.
C22_IdentityOfTypeAndParameter ==
    LET d == op.dest_config
        t == get(d, Key.type, <<>>)
        has(k) == k \in DOMAIN d
        colon(a, b) == a \o <<":">> \o b
        naming == {Key.type, Key.remote_path, Key.bucket, Key.container, Key.folder_id,
                   Key.path, Key.host, Key.url}
        core == [k \in DOMAIN d \cap naming |-> d[k]]
    IN  op.name = "identify" =>
            /\ t = s_rclone /\ has(Key.remote_path)
                    => op.dest_id = colon(s_rclone, d[Key.remote_path])
            /\ t = s_rclone /\ ~has(Key.remote_path)
                    => op.dest_id = colon(s_rclone, Type.unknown)
            /\ t \in {Type.s3, Type.gcs, Type.b2} /\ has(Key.bucket)
                    => op.dest_id = colon(t, d[Key.bucket])
            /\ t = Type.azure /\ has(Key.container)
                    => op.dest_id = colon(Type.azure, d[Key.container])
            /\ t = Type.gdrive /\ has(Key.folder_id)
                    => op.dest_id = colon(Type.gdrive, d[Key.folder_id])
            /\ t = Type.filesystem /\ has(Key.path)
                    => op.dest_id = colon(Type.filesystem, d[Key.path])
            /\ t = Type.sftp /\ has(Key.host) /\ has(Key.path)
                    => op.dest_id = colon(colon(Type.sftp, d[Key.host]), d[Key.path])
            /\ t = Type.webdav /\ has(Key.url)
                    => op.dest_id = colon(Type.webdav, d[Key.url])
            /\ has(Key.type) /\ t \notin DOMAIN BACKEND_PARAMS
                    => op.dest_id = colon(t, Type.unknown)
            /\ op.dest_id = get_destination_id(core)

\* an sftp destination with host, path, user name, interval and sync-args
C22_Witness ==
    /\ op.name = "identify"
    /\ get(op.dest_config, Key.type, <<>>) = Type.sftp
    /\ {Key.host, Key.path, Key.username, Key.interval, Key.sync_args}
           \subseteq DOMAIN op.dest_config
    /\ op.dest_id = Type.sftp \o <<":">> \o Val.old \o <<":">> \o Val.subdir

\* C23: two calls of sync that differ in the password alone log and print the same
\* lines, and each line that shows the command shows --password=*** in it.
C23_PasswordNotShown ==
    op.name = "render" =>
        /\ op.log1 = op.log2
        /\ \A k \in 1..Len(op.log2) :
              \/ op.log2[k] = Msg.sync_interrupted
              \/ contains(op.log2[k], <<" ">> \o Flag.password \o <<"*", "*", "*", " ">>)

\* an interactive dry run of an rclone destination, with a password that holds a
\* quote: the Executing line and the Would execute line
C23_Witness ==
    /\ op.name = "render"
    /\ get(op.dest_config, Key.type, <<>>) = s_rclone
    /\ op.pw2 = <<"\\", "\"">>
    /\ op.dry_run /\ ~op.quiet
    /\ Len(op.log2) = 2
    /\ startswith(op.log2[1], Msg.executing)
    /\ startswith(op.log2[2], Msg.would_execute)

\* C24: a destination whose interval is absent or ends in no known unit ("1d")
\* is given the interval of 60 minutes, and its pass does not raise.
C24_IntervalDefaultsTo60m ==
    LET d == sync_destinations[last.idx]
    IN  (/\ last.outcome # "none"
         /\ (Key.interval \notin DOMAIN d \/ d[Key.interval] = Val.i1d)) =>
            /\ last.outcome # "raised"
            /\ last.interval = 3600

\* the configuration error of a destination: its type is unknown or absent, or a
\* required parameter is missing
Misconfigured(d) ==
    \/ get(d, Key.type, <<>>) \notin DOMAIN BACKEND_PARAMS
    \/ \E k \in 1..Len(BACKEND_PARAMS[d[Key.type]].required) :
          BACKEND_PARAMS[d[Key.type]].required[k] \notin DOMAIN d

\* C25: for a destination of any type with an unknown type or without a required
\* parameter, the pass runs no program and records one failure, whose error is the
\* configuration error that names every missing parameter.
C25_ConfigErrorBeforeAnySubprocess ==
    LET d == sync_destinations[last.idx]
    IN  (last.outcome \notin {"none", "raised"} /\ Misconfigured(d)) =>
            /\ last.spawned = {}
            /\ Len(last.updates) = 1
            /\ ~last.updates[1].success
            /\ last.updates[1].error =
                  build_sync_command(d, config_file, password, dry_run).error
            /\ StoredNow # <<>>
            /\ StoredNow[1].error = last.updates[1].error

\* C26: an rclone destination whose remote is not configured never has kopia run
\* for it, is counted as failed (all_success is false), and the loop goes on.
C26_UnconfiguredRemoteFails ==
    LET d == sync_destinations[last.idx]
    IN  (/\ last.outcome # "none"
         /\ get(d, Key.type, <<>>) = s_rclone
         /\ ~last.configured) =>
            /\ "kopia" \notin last.spawned
            /\ ~all_success
            /\ last.outcome # "raised"
            /\ idx = last.idx + 1

\* C27: when the operator interrupts the run while kopia is running for a
\* destination, the attempt is a failure whose error says "interrupted by user":
\* it is stored with success = false and all_success is false.
C27_InterruptIsFailure ==
    last.run_kind = "KeyboardInterrupt" =>
        /\ ~last.success
        /\ Len(last.updates) = 1
        /\ ~last.updates[1].success
        /\ contains(last.updates[1].error, <<"i", "n", "t", "e", "r", "r", "u", "p", "t", "e", "d", " ", "b", "y", " ", "u", "s", "e", "r">>)
        /\ StoredNow # <<>>
        /\ ~StoredNow[1].success
        /\ StoredNow[1].error = last.updates[1].error
        /\ ~all_success
        /\ pc = "done" => result = <<FALSE>>

\* an interactive run that was interrupted has returned
C27_Witness ==
    /\ last.run_kind = "KeyboardInterrupt"
    /\ "kopia" \in last.spawned
    /\ ~scheduled
    /\ pc = "done"
    /\ result = <<FALSE>>

\* C28: a dry run leaves the status store as it was: no pass of a run with
\* dry_run = True calls update_cloud_sync_status or changes the file.
C28_DryRunLeavesStore ==
    (dry_run /\ last.outcome # "none") =>
        /\ last.updates = <<>>
        /\ file = last.file_before

\* C29: every record of the status store has an error (not null) exactly when its
\* success is false; so has every record the scheduler hands to the store.
C29_ErrorIffFailure ==
    /\ \A key \in DOMAIN load_cloud_sync_status(file) :
          (load_cloud_sync_status(file)[key].error # None)
              <=> ~load_cloud_sync_status(file)[key].success
    /\ \A k \in 1..Len(last.updates) :
          (last.updates[k].error # None) <=> ~last.updates[k].success

\* the run has stored a success for its first destination and a failure of kopia
\* for its second
C29_Witness ==
    /\ last.idx = 2
    /\ last.outcome = "spawned"
    /\ ~last.success
    /\ StoredNow # <<>> /\ StoredNow[1].error = Msg.notfound
    /\ LET first == get_sync_status_for_destination(
                         file, repo_name, get_destination_id(sync_destinations[1]))
       IN  /\ first # <<>>
           /\ first[1].success
           /\ first[1].error = None
           /\ first[1].last_sync = isoformat(now)

\* C30: a pass comes to the interval check only after the running-sync guard and,
\* for rclone, the check of the remote; so an rclone destination whose remote is
\* not configured is never throttled: unless the guard skips it, it fails at the
\* remote check, however recent its last successful sync.
C30_GuardAndRemoteBeforeThrottle ==
    LET d == sync_destinations[last.idx]
        rclone == get(d, Key.type, <<>>) = s_rclone
    IN  /\ (/\ last.outcome = "throttled"
            /\ rclone
            /\ get(d, Key.remote_path, <<>>) # <<>>) =>
               /\ "ps" \in last.spawned
               /\ "listremotes" \in last.spawned
        /\ (/\ last.outcome \notin {"none", "guard"}
            /\ rclone
            /\ ~last.configured) =>
               /\ last.outcome = "remote"
               /\ ~all_success


\* C35: while the sync started from an rclone configuration is in progress, its
\* helper's command line being "rclone -v serve webdav <remote-path as passed>
\* --addr", the guard answers (True, "rclone already syncing to <remote-path>")
\* for the same configuration, a remote path written with a trailing slash
\* included.
C35_GuardSeesOwnHelper ==
    LET d == op.dest_config
    IN  (/\ op.name = "is_running"
         /\ get(d, Key.type, <<>>) = s_rclone
         /\ get(d, Key.remote_path, <<>>) # <<>>
         /\ op.ps \in OwnPs(d))
        => /\ op.running[1]
           /\ op.running[2] = Msg.already \o d[Key.remote_path]

\* C31: when sync evaluates the guard for an rclone destination while the process
\* listing holds the helper of a sync in progress to the same remote-path, it
\* starts no kopia for that destination.
C31_NoKopiaWhileHelperServes ==
    (/\ op.name = "sync"
     /\ get(op.dest_config, Key.type, <<>>) = s_rclone
     /\ get(op.dest_config, Key.remote_path, <<>>) # <<>>
     /\ op.ps \in OwnPs(op.dest_config))
    => "kopia" \notin op.result.spawned

\* C36: when the process listing raises or exits non-zero, the guard answers
\* (False, "") and sync goes on past the guard to the remote check, and to kopia
\* when the remote is configured.
C36_GuardFailsOpen ==
    LET d == op.dest_config
        remote == before_colon(get(d, Key.remote_path, <<>>))
    IN  (/\ op.name = "sync"
         /\ get(d, Key.type, <<>>) = s_rclone
         /\ get(d, Key.remote_path, <<>>) # <<>>
         /\ op.ps.kind = "Exception" \/ op.ps.returncode # 0)
        => /\ op.running = <<FALSE, <<>>, TRUE>>
           /\ op.result.stage # "guard"
           /\ {"ps", "listremotes"} \subseteq op.result.spawned
           /\ check_rclone_remote_configured(remote, op.listremotes)
                 => op.result.stage = "spawned" /\ "kopia" \in op.result.spawned

\* the listing of a served path exits with 1, the remote is configured: kopia runs
C36_Witness ==
    /\ op.name = "sync"
    /\ get(op.dest_config, Key.type, <<>>) = s_rclone
    /\ get(op.dest_config, Key.remote_path, <<>>) = Val.od_b
    /\ op.ps.kind = "exit" /\ op.ps.returncode = 1
    /\ op.ps.lines = <<line_serving>>
    /\ op.result.stage = "spawned"
    /\ "kopia" \in op.result.spawned

\* C33: two destinations of one repository that differ in the backend type or in
\* the value of a required parameter have distinct identities, hence distinct
\* keys in the status file.
C33_IdentityUnique ==
    LET t == op.a[Key.type]
        required == BACKEND_PARAMS[t].required
        differ == \/ op.a[Key.type] # op.b[Key.type]
                  \/ \E k \in 1..Len(required) :
                        get(op.a, required[k], None) # get(op.b, required[k], None)
    IN  op.name = "compare" /\ differ => op.id_a # op.id_b /\ op.key_a # op.key_b

\* C34: after cleanup(valid), the record that the update before it wrote for
\* repository R remains if and only if R is one of the valid names, whatever the
\* name of R: a name that holds ":" or starts with a valid name and ":" included.
C34_CleanupKeepsIffRepoValid ==
    (/\ op.name = "cleanup" /\ op.exc = "none"
     /\ op.prev # <<>>
     /\ op.prev[1].name = "update" /\ op.prev[1].saved)
    => (op.prev[1].key \in DOMAIN load_cloud_sync_status(file)
            <=> \E i \in 1..Len(op.valid) : op.valid[i] = op.prev[1].repo)
====
